---- MODULE Spec2Model ----
(***************************************************************************)
(* Presence, room broadcast and notification fan-out of the chat server    *)
(* (src/unnamed/part_000): the socket handlers, the dedup window of        *)
(* send_message, the pin cascade of PUT /api/messages/:id/pin and the      *)
(* notification scan of PUT /api/lectures/:id.                             *)
(*                                                                         *)
(* JavaScript values are records [t, s]: t is the typeof tag and s the     *)
(* text String(v) yields, so the number 1 and the string "1" are two       *)
(* values with the same text.                                              *)
(***************************************************************************)
EXTENDS Integers, Sequences, FiniteSets, TLC

\* ------------------------------------------------------------ JS values

Str(s) == [t |-> "string", s |-> s]
Num(s) == [t |-> "number", s |-> s]
Undef == [t |-> "undefined", s |-> "undefined"]
Null == [t |-> "null", s |-> "null"]
True == [t |-> "boolean", s |-> "true"]
False == [t |-> "boolean", s |-> "false"]

\* String(v): always a string, with the text of v.
String(v) == Str(v.s)

\* v !== undefined
TruthyDefined(v) == v.t # "undefined"

\* ToBoolean(v): undefined, null, "" and 0 are falsy.
Truthy(v) ==
  CASE v.t = "undefined" -> FALSE
    [] v.t = "null" -> FALSE
    [] v.t = "string" -> v.s # ""
    [] v.t = "number" -> v.s # "0"
    [] v.t = "boolean" -> v.s = "true"
    [] OTHER -> TRUE

\* a || b
Or(a, b) == IF Truthy(a) THEN a ELSE b

\* typeof data === 'string' || typeof data === 'number'
IsPrimitive(v) == v.t \in {"string", "number"}

\* s.toLowerCase() on the texts the model draws cohorts from.
LowerText(s) ==
  CASE s = "Morning" -> "morning"
    [] s = "MORNING" -> "morning"
    [] s = "Evening" -> "evening"
    [] s = "EVENING" -> "evening"
    [] OTHER -> s

ToLowerCase(v) == Str(LowerText(v.s))

\* v.toLowerCase is not a function: calling it on a number or a boolean
\* throws a TypeError
LowerThrows(v) == v.t # "string"

\* reading a property of undefined or null, or destructuring it, throws a
\* TypeError
Absent(payload) == payload \in {Undef, Null}

\* n.toString() of a row id
Digit(d) ==
  CASE d = 0 -> "0" [] d = 1 -> "1" [] d = 2 -> "2" [] d = 3 -> "3" [] d = 4 -> "4"
    [] d = 5 -> "5" [] d = 6 -> "6" [] d = 7 -> "7" [] d = 8 -> "8" [] d = 9 -> "9"

RECURSIVE ToText(_)
ToText(n) == IF n < 10 THEN Digit(n) ELSE ToText(n \div 10) \o Digit(n % 10)

NumText(n) == IF n < 0 THEN "-" \o ToText(0 - n) ELSE ToText(n)

\* a value bound to a statement parameter: undefined is stored as NULL
Bound(v) == IF v.t = "undefined" THEN Null ELSE v

\* ------------------------------------------------- Map (insertion order)
\* A JS Map is a sequence of [k, v] entries in insertion order: set() of a
\* present key keeps its place, delete() closes the gap.

MapHas(m, k) == \E i \in 1..Len(m) : m[i].k = k
MapGet(m, k) == m[CHOOSE i \in 1..Len(m) : m[i].k = k].v
MapSet(m, k, v) ==
  IF MapHas(m, k)
  THEN [i \in 1..Len(m) |-> IF m[i].k = k THEN [k |-> k, v |-> v] ELSE m[i]]
  ELSE Append(m, [k |-> k, v |-> v])
MapDelete(m, k) == SelectSeq(m, LAMBDA e : e.k # k)
MapKeys(m) == {m[i].k : i \in 1..Len(m)}

\* ---------------------------------------------------------------- bounds

Sockets == {"s1", "s2"}

\* requests (sends, pins, notifications, lecture updates) in one run
MaxReqs == 3
\* clock ticks of one second in one run
MaxTicks == 10
\* pin, notification and lecture requests in flight at once
MaxInFlight == 1
\* clock ticks of one second in a run that is followed to its end
MaxLiveTicks == 16

\* ----------------------------------------------------------------- state

VARIABLES
  conn,              \* socket -> "new" | "live" | "gone"
  subs,              \* socket -> the socket.io rooms it is in
  connectedUsers,    \* Map<socketId, {id, name, role, studyType}>
  roomParticipants,  \* Map<roomName, Map<socketId, {userId, userName, role}>>
  recentMessages,    \* Map<tempId, timestamp>
  timers,            \* pending setTimeout callbacks, in creation order
  now,               \* Date.now(), in ms
  messages,          \* table messages, row i has id i
  notifications,     \* table notifications, row i has id i
  pending,           \* database calls whose callback has not run yet
  nextReq,           \* number of requests received so far
  acceptedAt,        \* history: Map<tempId, time of the last send that passed the dedup check>
  last,              \* history: the event the last step handled, with its payload
  out                \* the events the last step emitted, in order

vars == <<conn, subs, connectedUsers, roomParticipants, recentMessages, timers,
          now, messages, notifications, pending, nextReq, acceptedAt, last, out>>

socketVars == <<conn, subs, connectedUsers, roomParticipants>>
dedupVars == <<recentMessages, timers, acceptedAt>>
dbVars == <<messages, notifications, pending, nextReq>>

Live == {c \in Sockets : conn[c] = "live"}

\* ---------------------------------------------------------------- events

Everyone == [t |-> "broadcast", s |-> "*"]

\* The sockets an emit reaches: io.emit reaches every connected socket,
\* io.to(room) those in the room (a socket is in the room of its own id).
\* still addresses the connections that are gone
AudienceWithGone(cn, sb, to) ==
  IF to = Everyone THEN {c \in Sockets : cn[c] # "new"}
  ELSE {c \in Sockets : cn[c] # "new" /\ (to = Str(c) \/ to \in sb[c])}

\* delivers a broadcast only to the connections that joined some room
AudienceJoined(cn, sb, to) ==
  IF to = Everyone THEN {c \in Sockets : cn[c] = "live" /\ sb[c] # {Str(c)}}
  ELSE {c \in Sockets : cn[c] = "live" /\ to \in sb[c]}

\* delivers a room's events to its recorded participants only
AudienceParticipants(cn, sb, to) ==
  IF to = Everyone THEN {c \in Sockets : cn[c] = "live"}
  ELSE {c \in Sockets : /\ cn[c] = "live" /\ MapHas(roomParticipants, to)
                        /\ MapHas(MapGet(roomParticipants, to), c)}

Audience(cn, sb, to) ==
  IF to = Everyone THEN {c \in Sockets : cn[c] = "live"}
  ELSE {c \in Sockets : cn[c] = "live" /\ to \in sb[c]}

Event(cn, sb, to, ev, data) ==
  [ev |-> ev, to |-> to, rcpt |-> Audience(cn, sb, to), data |-> data]

\* ------------------------------------------------- emitActiveStudentCount

\* counts every participant, whatever the role
StudentCountAll(participants) == Len(participants)

\* Array.from(participants.values()).filter(p => p.role === 'student').length
StudentCount(participants) ==
  Cardinality({i \in 1..Len(participants) : participants[i].v.role = Str("student")})

emitActiveStudentCount(rp, cn, sb, room) ==
  IF ~MapHas(rp, room)
  THEN Event(cn, sb, room, "active_student_count", [room |-> room, count |-> 0])
  ELSE Event(cn, sb, room, "active_student_count",
             [room |-> room, count |-> StudentCount(MapGet(rp, room))])

\* ------------------------------------------------------------ connection

NoSend == [op |-> "none"]

\* The history variable last is written by the specification a handler runs
\* under: Quiet keeps none, Handled records the event and its payload.
Quiet == last' = NoSend
Handled(op, c, data) == last' = [op |-> op, c |-> c, data |-> data]

Init ==
  /\ conn = [c \in Sockets |-> "new"]
  /\ subs = [c \in Sockets |-> {}]
  /\ connectedUsers = <<>>
  /\ roomParticipants = <<>>
  /\ recentMessages = <<>>
  /\ timers = <<>>
  /\ now = 0
  /\ messages = <<>>
  /\ notifications = <<>>
  /\ pending = {}
  /\ nextReq = 0
  /\ acceptedAt = <<>>
  /\ last = NoSend
  /\ out = <<>>

\* io.on('connection'): the socket joins the room of its own id.
Connection(c) ==
  /\ last' = NoSend
  /\ conn[c] = "new"
  /\ conn' = [conn EXCEPT ![c] = "live"]
  /\ subs' = [subs EXCEPT ![c] = {Str(c)}]
  /\ out' = <<>>
  /\ UNCHANGED <<connectedUsers, roomParticipants, dedupVars, now, dbVars>>

\* stores the identity as it came
NormalizedDataAsGiven(userData) == userData

\* { ...userData, studyType: userData.studyType || 'morning' }
NormalizedData(userData) ==
  [userData EXCEPT !.studyType = Or(userData.studyType, Str("morning"))]

\* socket.on('register_user')
register_user(c, userData) ==
  /\ conn[c] = "live"
  /\ IF Absent(userData)
     THEN UNCHANGED connectedUsers
     ELSE connectedUsers' = MapSet(connectedUsers, c, NormalizedData(userData))
  /\ out' = <<>>
  /\ UNCHANGED <<conn, subs, roomParticipants, dedupVars, now, dbVars>>

\* stops at the first room that holds the socket
RECURSIVE disconnectRoomsFirstOnly(_, _, _, _, _)
disconnectRoomsFirstOnly(rp, i, c, cn, sb) ==
  IF i > Len(rp) THEN [rp |-> rp, out |-> <<>>]
  ELSE IF MapHas(rp[i].v, c)
       THEN LET rp2 == [rp EXCEPT ![i].v = MapDelete(rp[i].v, c)]
            IN [rp |-> rp2, out |-> <<emitActiveStudentCount(rp2, cn, sb, rp[i].k)>>]
       ELSE disconnectRoomsFirstOnly(rp, i + 1, c, cn, sb)

\* roomParticipants.forEach of the disconnect handler from entry i on: the
\* map after the deletions and the events emitted, in order.
RECURSIVE disconnectRooms(_, _, _, _, _)
disconnectRooms(rp, i, c, cn, sb) ==
  IF i > Len(rp) THEN [rp |-> rp, out |-> <<>>]
  ELSE IF MapHas(rp[i].v, c)
       THEN LET rp2 == [rp EXCEPT ![i].v = MapDelete(rp[i].v, c)]
                rest == disconnectRooms(rp2, i + 1, c, cn, sb)
            IN [rp |-> rest.rp,
                out |-> <<emitActiveStudentCount(rp2, cn, sb, rp[i].k)>> \o rest.out]
       ELSE disconnectRooms(rp, i + 1, c, cn, sb)

\* forgets the connection in the registry and leaves the rooms for later
disconnectRegistryOnly(c) ==
  /\ conn[c] = "live"
  /\ conn' = [conn EXCEPT ![c] = "gone"]
  /\ subs' = [subs EXCEPT ![c] = {}]
  /\ connectedUsers' = MapDelete(connectedUsers, c)
  /\ out' = <<>>
  /\ UNCHANGED <<roomParticipants, dedupVars, now, dbVars>>

\* socket.on('disconnect'): socket.io has taken the socket out of its rooms
\* before the handler runs.
disconnect(c) ==
  /\ conn[c] = "live"
  /\ conn' = [conn EXCEPT ![c] = "gone"]
  /\ subs' = [subs EXCEPT ![c] = {}]
  /\ connectedUsers' = MapDelete(connectedUsers, c)
  /\ LET r == disconnectRooms(roomParticipants, 1, c, conn', subs')
     IN /\ roomParticipants' = r.rp
        /\ out' = r.out
  /\ UNCHANGED <<dedupVars, now, dbVars>>

\* rejects only the empty identifier
InvalidRoomIdEmptyOnly(roomId) == ~Truthy(roomId)

\* !roomId || roomId === 'undefined' || roomId === 'null'
InvalidRoomId(roomId) ==
  ~Truthy(roomId) \/ roomId = Str("undefined") \/ roomId = Str("null")

\* data.roomId of an absent payload (undefined or null) throws a TypeError
JoinThrows(data) == data.t \in {"undefined", "null"}

\* adds a Participant entry at every join
join_roomAddsEntry(c, data) ==
  /\ conn[c] = "live"
  /\ IF JoinThrows(data)
     THEN /\ out' = <<>>
          /\ UNCHANGED <<subs, roomParticipants>>
     ELSE
     LET roomId == String(IF IsPrimitive(data) THEN data ELSE Or(data.roomId, data.room))
         userId == IF data.t = "object" THEN data.userId ELSE Null
         userName == IF data.t = "object" THEN data.userName ELSE Null
         role == IF data.t = "object" THEN data.role ELSE Null
     IN IF InvalidRoomId(roomId)
        THEN /\ out' = <<>>
             /\ UNCHANGED <<subs, roomParticipants>>
        ELSE /\ subs' = [subs EXCEPT ![c] = @ \cup {roomId}]
             /\ IF Truthy(userId) /\ Truthy(userName) /\ Truthy(role)
                THEN LET rp1 == IF MapHas(roomParticipants, roomId)
                                THEN roomParticipants
                                ELSE MapSet(roomParticipants, roomId, <<>>)
                         rp2 == MapSet(rp1, roomId,
                                       Append(MapGet(rp1, roomId),
                                              [k |-> c,
                                               v |-> [userId |-> userId,
                                                      userName |-> userName,
                                                      role |-> role]]))
                     IN /\ roomParticipants' = rp2
                        /\ out' = <<emitActiveStudentCount(rp2, conn, subs', roomId)>>
                ELSE /\ out' = <<>>
                     /\ UNCHANGED roomParticipants
  /\ UNCHANGED <<conn, connectedUsers, dedupVars, now, dbVars>>

\* socket.on('join_room'): data is a string or a number, or an object
\* {roomId, room, userId, userName, role}.
join_room(c, data) ==
  /\ conn[c] = "live"
  /\ IF JoinThrows(data)
     THEN /\ out' = <<>>
          /\ UNCHANGED <<subs, roomParticipants>>
     ELSE
     LET roomId == String(IF IsPrimitive(data) THEN data ELSE Or(data.roomId, data.room))
         userId == IF data.t = "object" THEN data.userId ELSE Null
         userName == IF data.t = "object" THEN data.userName ELSE Null
         role == IF data.t = "object" THEN data.role ELSE Null
     IN IF InvalidRoomId(roomId)
        THEN /\ out' = <<>>
             /\ UNCHANGED <<subs, roomParticipants>>
        ELSE /\ subs' = [subs EXCEPT ![c] = @ \cup {roomId}]
             /\ IF Truthy(userId) /\ Truthy(userName) /\ Truthy(role)
                THEN LET rp1 == IF MapHas(roomParticipants, roomId)
                                THEN roomParticipants
                                ELSE MapSet(roomParticipants, roomId, <<>>)
                         rp2 == MapSet(rp1, roomId,
                                       MapSet(MapGet(rp1, roomId), c,
                                              [userId |-> userId, userName |-> userName,
                                               role |-> role]))
                     IN /\ roomParticipants' = rp2
                        /\ out' = <<emitActiveStudentCount(rp2, conn, subs', roomId)>>
                ELSE /\ out' = <<>>
                     /\ UNCHANGED roomParticipants
  /\ UNCHANGED <<conn, connectedUsers, dedupVars, now, dbVars>>

\* empties the room that one connection leaves
leave_roomClearsRoom(c, roomId) ==
  /\ conn[c] = "live"
  /\ subs' = [subs EXCEPT ![c] = @ \ {roomId}]
  /\ IF MapHas(roomParticipants, roomId)
     THEN LET rp2 == MapSet(roomParticipants, roomId, <<>>)
          IN /\ roomParticipants' = rp2
             /\ out' = <<emitActiveStudentCount(rp2, conn, subs', roomId)>>
     ELSE /\ out' = <<>>
          /\ UNCHANGED roomParticipants
  /\ UNCHANGED <<conn, connectedUsers, dedupVars, now, dbVars>>

\* socket.on('leave_room', ({ roomId }) => ...): roomId is used as it came.
leave_room(c, roomId) ==
  /\ conn[c] = "live"
  /\ subs' = [subs EXCEPT ![c] = @ \ {roomId}]
  /\ IF MapHas(roomParticipants, roomId)
     THEN LET rp2 == MapSet(roomParticipants, roomId,
                            MapDelete(MapGet(roomParticipants, roomId), c))
          IN /\ roomParticipants' = rp2
             /\ out' = <<emitActiveStudentCount(rp2, conn, subs', roomId)>>
     ELSE /\ out' = <<>>
          /\ UNCHANGED roomParticipants
  /\ UNCHANGED <<conn, connectedUsers, dedupVars, now, dbVars>>

\* socket.on('leave_room', ({ roomId }) => ...) with the payload as it came:
\* destructuring an absent payload throws before anything is done
leave_room_payload(c, data) ==
  IF Absent(data)
  THEN /\ conn[c] = "live"
       /\ out' = <<>>
       /\ UNCHANGED <<socketVars, dedupVars, now, dbVars>>
  ELSE leave_room(c, data.roomId)

\* --------------------------------------------------------- handler inputs

Obj(roomId, room, userId, userName, role) ==
  [t |-> "object", s |-> "[object Object]", roomId |-> roomId, room |-> room,
   userId |-> userId, userName |-> userName, role |-> role]

RoomIds == {Str("1"), Num("1"), Str("2")}

JoinData ==
  {Str("1"), Num("2")}
  \cup {Obj(r, Undef, Num("7"), Str("amal"), ro) :
          r \in {Str("1"), Num("2")}, ro \in {Str("student"), Str("representative")}}
  \cup {Obj(Str("1"), Undef, Num("7"), Undef, Str("student")),
        Obj(Undef, Str("2"), Num("7"), Str("amal"), Str("student")),
        Obj(Undef, Undef, Num("7"), Str("amal"), Str("student")),
        Str("")}

UserData(id, role, studyType) ==
  [id |-> id, name |-> Str("user"), role |-> role, studyType |-> studyType]

RoomsUserData == {UserData(Num("7"), Str("student"), st) : st \in {Undef, Str("Evening")}}

\* ------------------------------------------------- rooms and registration

NextRooms ==
  \/ \E c \in Sockets : Connection(c)
  \/ \E c \in Sockets, d \in RoomsUserData : register_user(c, d) /\ Quiet
  \/ \E c \in Sockets : disconnect(c) /\ Quiet
  \/ \E c \in Sockets, d \in JoinData : join_room(c, d) /\ Quiet
  \/ \E c \in Sockets, r \in RoomIds : leave_room(c, r) /\ Quiet

SpecRooms == Init /\ [][NextRooms]_vars

\* ------------------------------------------- presence, with its history

PresenceJoinData ==
  {Str("1"), Str(""), Str("undefined"), Str("null"), Undef,
   Obj(Num("2"), Undef, Num("7"), Str("amal"), Str("student")),
   Obj(Str("1"), Undef, Num("8"), Str("omar"), Str("representative")),
   Obj(Str("1"), Undef, Num("7"), Undef, Str("student")),
   Obj(Undef, Undef, Num("7"), Str("amal"), Str("student")),
   Obj(Null, Str(""), Num("7"), Str("amal"), Str("student"))}

PresenceRoomIds == {Str("1"), Num("2"), Str("2"), Str("3")}

PresenceUserData ==
  {UserData(Num("7"), Str("student"), st) : st \in {Undef, Str(""), Str("Evening")}}

NextPresence ==
  \/ \E c \in Sockets : Connection(c)
  \/ \E c \in Sockets, d \in PresenceUserData :
       register_user(c, d) /\ Handled("register_user", c, d)
  \/ \E c \in Sockets : disconnect(c) /\ Handled("disconnect", c, Undef)
  \/ \E c \in Sockets, d \in PresenceJoinData :
       join_room(c, d) /\ Handled("join_room", c, d)
  \/ \E c \in Sockets, r \in PresenceRoomIds :
       leave_room(c, r) /\ Handled("leave_room", c, r)

SpecPresence == Init /\ [][NextPresence]_vars

\* ------------------------------------------------------------- database
\* A database call is queued with its closure, executed by sqlite (DbRun:
\* the statement succeeds or fails) and then its callback runs, each a step
\* of its own.  st is "queued", then "ok" or "err"; lastID is this.lastID.

\* INSERT INTO messages: the row gets the next id.  req and tempId are
\* history: the request the row came from and the token it carried.
InsertMessage(tbl, op) ==
  Append(tbl, [id |-> Len(tbl) + 1, room |-> Bound(op.room),
               sender_id |-> Bound(op.sender_id),
               sender_name |-> Bound(op.sender_name), content |-> Bound(op.content),
               type |-> Bound(op.type), file_path |-> Bound(op.file_path),
               is_pinned |-> 0,
               req |-> op.req, tempId |-> op.tempId])

\* sqlite executes a queued insert into messages
DbRunMessage(op, ok) ==
  /\ last' = NoSend
  /\ op \in pending /\ op.st = "queued"
  /\ op.kind \in {"msg_insert", "sysmsg_insert"}
  /\ IF ok
     THEN /\ messages' = InsertMessage(messages, op)
          /\ pending' = (pending \ {op})
                          \cup {[op EXCEPT !.st = "ok", !.lastID = Len(messages) + 1]}
     ELSE /\ pending' = (pending \ {op}) \cup {[op EXCEPT !.st = "err"]}
          /\ UNCHANGED messages
  /\ out' = <<>>
  /\ UNCHANGED <<socketVars, dedupVars, now, notifications, nextReq>>

\* ---------------------------------------------------------- send_message

DedupWindowMs == 5000
RetentionMs == 10000

\* rejects whenever the token is in the window, whatever its age
IsDuplicateAnyAge(rm, tempId, t) ==
  /\ Truthy(tempId)
  /\ MapHas(rm, tempId)

\* if (tempId && recentMessages.has(tempId)) { ... Date.now() - lastSeen < 5000 }
IsDuplicate(rm, tempId, t) ==
  /\ Truthy(tempId)
  /\ MapHas(rm, tempId)
  /\ t - MapGet(rm, tempId) < DedupWindowMs

\* a rejected duplicate stamps the entry again
send_messageRefreshesOnDuplicate(c, messageData) ==
  IF Absent(messageData)
  THEN /\ conn[c] = "live"
       /\ last' = [op |-> "thrown", handler |-> "send_message", c |-> c]
       /\ out' = <<>>
       /\ UNCHANGED <<socketVars, dedupVars, now, dbVars>>
  ELSE /\ conn[c] = "live"
       /\ nextReq < MaxReqs
       /\ nextReq' = nextReq + 1
       /\ LET room == String(messageData.room)
              tempId == messageData.tempId
              dup == IsDuplicate(recentMessages, tempId, now)
          IN /\ last' = [op |-> "send_message", req |-> nextReq', tempId |-> tempId,
                          c |-> c, sender_id |-> messageData.sender_id,
                          room |-> messageData.room, at |-> now, accepted |-> ~dup,
                          prev |-> IF MapHas(acceptedAt, tempId)
                                   THEN MapGet(acceptedAt, tempId) ELSE -1]
             /\ IF dup
                THEN /\ recentMessages' = MapSet(recentMessages, tempId, now)
                     /\ UNCHANGED <<timers, pending, acceptedAt>>
                ELSE /\ IF Truthy(tempId)
                        THEN /\ acceptedAt' = MapSet(acceptedAt, tempId, now)
                             /\ recentMessages' = MapSet(recentMessages, tempId, now)
                             /\ timers' = Append(timers, [tempId |-> tempId,
                                                          due |-> now + RetentionMs])
                        ELSE UNCHANGED <<recentMessages, timers, acceptedAt>>
                     /\ pending' = pending \cup
                          {[kind |-> "msg_insert", st |-> "queued", lastID |-> 0,
                            req |-> nextReq', room |-> room,
                            sender_id |-> messageData.sender_id,
                            sender_name |-> messageData.sender_name,
                            content |-> messageData.content,
                            type |-> Or(messageData.type, Str("text")),
                            file_path |-> messageData.file_path,
                            tempId |-> tempId]}
       /\ out' = <<>>
       /\ UNCHANGED <<socketVars, now, messages, notifications>>

\* socket.on('send_message'): the payload's role, avatar and studyType are
\* passed through to the broadcast and left out here.  messageData.room of an
\* absent payload throws a TypeError.
send_message(c, messageData) ==
  IF Absent(messageData)
  THEN /\ conn[c] = "live"
       /\ last' = [op |-> "thrown", handler |-> "send_message", c |-> c]
       /\ out' = <<>>
       /\ UNCHANGED <<socketVars, dedupVars, now, dbVars>>
  ELSE /\ conn[c] = "live"
       /\ nextReq < MaxReqs
       /\ nextReq' = nextReq + 1
       /\ LET room == String(messageData.room)
              tempId == messageData.tempId
              dup == IsDuplicate(recentMessages, tempId, now)
          IN /\ last' = [op |-> "send_message", req |-> nextReq', tempId |-> tempId,
                          c |-> c, sender_id |-> messageData.sender_id,
                          room |-> messageData.room, at |-> now, accepted |-> ~dup,
                          prev |-> IF MapHas(acceptedAt, tempId)
                                   THEN MapGet(acceptedAt, tempId) ELSE -1]
             /\ IF dup
                THEN UNCHANGED <<recentMessages, timers, pending, acceptedAt>>
                ELSE /\ IF Truthy(tempId)
                        THEN /\ acceptedAt' = MapSet(acceptedAt, tempId, now)
                             /\ recentMessages' = MapSet(recentMessages, tempId, now)
                             /\ timers' = Append(timers, [tempId |-> tempId,
                                                          due |-> now + RetentionMs])
                        ELSE UNCHANGED <<recentMessages, timers, acceptedAt>>
                     /\ pending' = pending \cup
                          {[kind |-> "msg_insert", st |-> "queued", lastID |-> 0,
                            req |-> nextReq', room |-> room,
                            sender_id |-> messageData.sender_id,
                            sender_name |-> messageData.sender_name,
                            content |-> messageData.content,
                            type |-> Or(messageData.type, Str("text")),
                            file_path |-> messageData.file_path,
                            tempId |-> tempId]}
       /\ out' = <<>>
       /\ UNCHANGED <<socketVars, now, messages, notifications>>

\* reads the id of the newest row instead of this.lastID
MessageIdNewest(op, tbl) == Len(tbl)

\* const messageId = this.lastID
MessageId(op, tbl) == op.lastID

\* the callback of send_message's db.run
send_message_cb(op) ==
  /\ last' = NoSend
  /\ op \in pending /\ op.kind = "msg_insert" /\ op.st \in {"ok", "err"}
  /\ pending' = pending \ {op}
  /\ IF op.st = "err"
     THEN out' = <<>>
     ELSE LET messageToSend ==
                [id |-> MessageId(op, messages), sender_id |-> op.sender_id,
                 sender_name |-> op.sender_name, content |-> op.content,
                 type |-> op.type, file_path |-> op.file_path, tempId |-> op.tempId]
          IN out' = <<Event(conn, subs, op.room, "receive_message", messageToSend),
                      Event(conn, subs, Everyone, "dashboard_update",
                            [roomId |-> op.room, message |-> messageToSend])>>
  /\ UNCHANGED <<socketVars, dedupVars, now, messages, notifications, nextReq>>

\* the timer runs and leaves the entry to the next lookup
TimerFiresKeepsEntry ==
  /\ last' = NoSend
  /\ timers # <<>>
  /\ now >= Head(timers).due
  /\ timers' = Tail(timers)
  /\ out' = <<>>
  /\ UNCHANGED <<socketVars, recentMessages, acceptedAt, now, dbVars>>

\* setTimeout(() => recentMessages.delete(tempId), 10000): timers of one
\* duration run in the order they were set, none before it is due.
TimerFires ==
  /\ last' = NoSend
  /\ timers # <<>>
  /\ now >= Head(timers).due
  /\ recentMessages' = MapDelete(recentMessages, Head(timers).tempId)
  /\ timers' = Tail(timers)
  /\ out' = <<>>
  /\ UNCHANGED <<socketVars, acceptedAt, now, dbVars>>

\* one second passes, once the timers that are due have run and the
\* database calls in flight have completed; the clock stops at horizon
Elapse(horizon) ==
  /\ last' = NoSend
  /\ now < horizon * 1000
  /\ pending = {}
  /\ IF timers = <<>> THEN TRUE ELSE now < Head(timers).due
  /\ now' = now + 1000
  /\ out' = <<>>
  /\ UNCHANGED <<socketVars, dedupVars, dbVars>>

Tick == Elapse(MaxTicks)

MessageData(room, tempId) ==
  [room |-> room, sender_id |-> Num("7"), sender_name |-> Str("amal"),
   content |-> Str("hi"), type |-> Undef, file_path |-> Undef, tempId |-> tempId]

DedupMessageData == {MessageData(Num("1"), t) : t \in {Undef, Str(""), Str("t1")}}

NextDedup ==
  \/ \E c \in {"s1"} : Connection(c)
  \/ \E c \in Sockets, d \in DedupMessageData : send_message(c, d)
  \/ \E op \in pending, ok \in BOOLEAN : DbRunMessage(op, ok)
  \/ \E op \in pending : send_message_cb(op)
  \/ TimerFires
  \/ Tick

SpecDedup == Init /\ [][NextDedup]_vars

\* sends that name no room, or the text 'undefined' or 'null', among sends
\* to room 1
MalformedMessageData ==
  {MessageData(r, Str("t1")) : r \in {Undef, Str("undefined"), Str("null"), Num("1")}}

NextMalformed ==
  \/ \E c \in Sockets : Connection(c)
  \/ \E c \in Sockets : join_room(c, Num("1")) /\ Quiet
  \/ \E c \in Sockets, d \in MalformedMessageData : send_message(c, d)
  \/ \E op \in pending, ok \in BOOLEAN : DbRunMessage(op, ok)
  \/ \E op \in pending : send_message_cb(op)
  \/ TimerFires
  \/ Tick

SpecMalformed == Init /\ [][NextMalformed]_vars

\* two users, each on its own connection and in its own room, send with the
\* same token
TokenMessageData(c) ==
  IF c = "s1" THEN MessageData(Str("1"), Str("t1"))
  ELSE [MessageData(Str("2"), Str("t1")) EXCEPT !.sender_id = Num("8"),
                                                !.sender_name = Str("omar")]

NextToken ==
  \/ \E c \in Sockets : Connection(c)
  \/ \E c \in Sockets : send_message(c, TokenMessageData(c))
  \/ \E op \in pending, ok \in BOOLEAN : DbRunMessage(op, ok)
  \/ \E op \in pending : send_message_cb(op)
  \/ TimerFires
  \/ Tick

SpecToken == Init /\ [][NextToken]_vars

\* the event loop runs every timer that is due and sqlite completes every
\* call, so the window is followed until its timers have run.  The last send
\* comes early enough for its timer to be due before the clock stops.
LiveMessageData == {MessageData(Num("1"), t) : t \in {Str("t1"), Str("t2")}}

LiveSend ==
  \E c \in Sockets, d \in LiveMessageData :
    now + RetentionMs <= MaxLiveTicks * 1000 /\ send_message(c, d)

LiveDbRun == \E op \in pending, ok \in BOOLEAN : DbRunMessage(op, ok)

LiveCallback == \E op \in pending : send_message_cb(op)

LiveTick == Elapse(MaxLiveTicks)

NextDedupLive ==
  \/ \E c \in {"s1"} : Connection(c)
  \/ LiveSend
  \/ LiveDbRun
  \/ LiveCallback
  \/ TimerFires
  \/ LiveTick

SpecDedupLive ==
  /\ Init
  /\ [][NextDedupLive]_vars
  /\ WF_vars(LiveDbRun)
  /\ WF_vars(LiveCallback)
  /\ WF_vars(TimerFires)
  /\ WF_vars(LiveTick)

\* ------------------------------------------------------- notifications

\* the requests whose database calls are not all done
FanOutKinds == {"pin_get", "pin_update", "notif_insert", "sysmsg_insert"}

InFlight == {op.req : op \in {o \in pending : o.kind \in FanOutKinds}}

\* INSERT INTO notifications: message is NOT NULL.  req is history.
InsertNotification(tbl, op) ==
  Append(tbl, [id |-> Len(tbl) + 1, user_id |-> Bound(op.user_id),
               title |-> op.title, message |-> Bound(op.body), req |-> op.req])

\* sqlite executes a queued insert into notifications
DbRunNotification(op, ok) ==
  /\ last' = NoSend
  /\ op \in pending /\ op.st = "queued" /\ op.kind = "notif_insert"
  /\ IF ok /\ Bound(op.body) # Null
     THEN /\ notifications' = InsertNotification(notifications, op)
          /\ pending' = (pending \ {op})
                          \cup {[op EXCEPT !.st = "ok", !.lastID = Len(notifications) + 1]}
     ELSE /\ pending' = (pending \ {op}) \cup {[op EXCEPT !.st = "err"]}
          /\ UNCHANGED notifications
  /\ out' = <<>>
  /\ UNCHANGED <<socketVars, dedupVars, now, messages, nextReq>>

\* a failed insert gives up the other inserts of its request
notification_cbAbortsBurst(op) ==
  /\ last' = NoSend
  /\ op \in pending /\ op.kind = "notif_insert" /\ op.st \in {"ok", "err"}
  /\ IF op.st = "err"
     THEN /\ pending' = {o \in pending : o.kind # "notif_insert" \/ o.req # op.req}
          /\ out' = <<>>
     ELSE /\ pending' = pending \ {op}
          /\ out' = <<Event(conn, subs, Str(op.socketId), "new_notification",
                            [id |-> op.lastID, title |-> op.title, body |-> op.body,
                             is_read |-> 0, type |-> op.src])>>
  /\ UNCHANGED <<socketVars, dedupVars, now, messages, notifications, nextReq>>

\* the callback of a notification insert: io.to(socketId).emit('new_notification')
notification_cb(op) ==
  /\ last' = NoSend
  /\ op \in pending /\ op.kind = "notif_insert" /\ op.st \in {"ok", "err"}
  /\ pending' = pending \ {op}
  /\ IF op.st = "err"
     THEN out' = <<>>
     ELSE out' = <<Event(conn, subs, Str(op.socketId), "new_notification",
                         [id |-> op.lastID, title |-> op.title, body |-> op.body,
                          is_read |-> 0, type |-> op.src])>>
  /\ UNCHANGED <<socketVars, dedupVars, now, messages, notifications, nextReq>>

\* compares the labels as they are written
SameStudyTypeExact(studyType, target) ==
  Or(studyType, Str("morning")) = Or(target, Str("morning"))

\* (userData.studyType || 'morning').toLowerCase() === (target || 'morning').toLowerCase()
SameStudyType(studyType, target) ==
  ToLowerCase(Or(studyType, Str("morning"))) = ToLowerCase(Or(target, Str("morning")))

\* the connections of user id that match the target when the scan runs
Devices(cu, id, target) ==
  {cu[j].k : j \in {k \in 1..Len(cu) :
                      cu[k].v.id = id /\ SameStudyType(cu[k].v.studyType, target)}}

\* a queued notification insert with what its callback closes over; devices
\* is history.
NotifInsert(cu, ctx, src, userData, socketId) ==
  [kind |-> "notif_insert", st |-> "queued", lastID |-> 0, req |-> ctx.req,
   src |-> src, user_id |-> userData.id, socketId |-> socketId,
   title |-> ctx.title, body |-> ctx.body, target |-> ctx.target,
   devices |-> Devices(cu, userData.id, ctx.target)]

\* ------------------------------------------------------ send_notification

\* notifies the sender's own connections too
RECURSIVE manualNotificationsAll(_, _, _)
manualNotificationsAll(cu, i, ctx) ==
  IF i > Len(cu) THEN {}
  ELSE LET userData == cu[i].v
           rest == manualNotificationsAll(cu, i + 1, ctx)
       IN IF SameStudyType(userData.studyType, ctx.target)
          THEN {NotifInsert(cu, ctx, "manual_alert", userData, cu[i].k)} \cup rest
          ELSE rest

\* connectedUsers.forEach of send_notification from entry i on: the inserts
\* it queues, one for each matching connection.  The scan ends at an entry
\* whose studyType is not a text, where toLowerCase throws: the inserts
\* queued for the entries before it stay queued.
RECURSIVE manualNotifications(_, _, _)
manualNotifications(cu, i, ctx) ==
  IF i > Len(cu) THEN {}
  ELSE IF LowerThrows(Or(cu[i].v.studyType, Str("morning"))) THEN {}
  ELSE LET userData == cu[i].v
           rest == manualNotifications(cu, i + 1, ctx)
       IN IF SameStudyType(userData.studyType, ctx.target) /\ userData.id # ctx.exclude
          THEN {NotifInsert(cu, ctx, "manual_alert", userData, cu[i].k)} \cup rest
          ELSE rest

\* senderData?.studyType || 'morning'
SenderStudyType(cu, c) ==
  IF MapHas(cu, c) THEN Or(MapGet(cu, c).studyType, Str("morning")) ELSE Str("morning")

\* socket.on('send_notification'): destructuring an absent payload, or
\* toLowerCase on a sender's studyType that is not a text, throws before the
\* scan.
send_notification(c, data) ==
  /\ conn[c] = "live"
  /\ nextReq < MaxReqs
  /\ Cardinality(InFlight) < MaxInFlight
  /\ nextReq' = nextReq + 1
  /\ IF Absent(data) \/ LowerThrows(SenderStudyType(connectedUsers, c))
     THEN UNCHANGED pending
     ELSE LET senderStudyType == ToLowerCase(SenderStudyType(connectedUsers, c))
              ctx == [req |-> nextReq', title |-> Str("notice from " \o data.professor_name.s),
                      body |-> data.message, target |-> senderStudyType,
                      exclude |-> data.professor_id]
          IN pending' = pending \cup manualNotifications(connectedUsers, 1, ctx)
  /\ out' = <<>>
  /\ UNCHANGED <<socketVars, dedupVars, now, messages, notifications>>

\* --------------------------------------------------- PUT /api/lectures/:id

\* the second connectedUsers.forEach of the lecture update from entry i on
RECURSIVE lectureNotifications(_, _, _)
lectureNotifications(cu, i, ctx) ==
  IF i > Len(cu) THEN {}
  ELSE LET userData == cu[i].v
           rest == lectureNotifications(cu, i + 1, ctx)
       IN IF SameStudyType(userData.studyType, ctx.target) /\ userData.id # ctx.exclude
          THEN {NotifInsert(cu, ctx, "lecture_update", userData, cu[i].k)} \cup rest
          ELSE rest

\* the callback that fetched the updated lecture: changed says whether its
\* date, time or location differ from the stored ones.
put_lecture_cb(lecture, changed) ==
  /\ nextReq < MaxReqs
  /\ Cardinality(InFlight) < MaxInFlight
  /\ nextReq' = nextReq + 1
  /\ out' = <<Event(conn, subs, Everyone, "lecture_updated", [lecture |-> lecture])>>
  /\ IF changed
     THEN LET ctx == [req |-> nextReq', title |-> Str("update: " \o lecture.title.s),
                      body |-> Str("changes"),
                      target |-> Or(lecture.studyType, Str("morning")),
                      exclude |-> lecture.created_by]
          IN pending' = pending \cup lectureNotifications(connectedUsers, 1, ctx)
     ELSE UNCHANGED pending
  /\ UNCHANGED <<socketVars, dedupVars, now, messages, notifications>>

\* ----------------------------------------------- PUT /api/messages/:id/pin

PreviewLength == 50
SystemSenderId == -1

NoMessage == [id |-> 0]

\* the row WHERE m.id = ?, with the columns joined from rooms and users
SelectMessage(tbl, id, roomStudyType, senderStudyType, roomName) ==
  IF \E i \in 1..Len(tbl) : ToText(i) = id.s
  THEN LET row == tbl[CHOOSE i \in 1..Len(tbl) : ToText(i) = id.s]
       IN [id |-> row.id, room |-> row.room, sender_id |-> row.sender_id,
           sender_name |-> row.sender_name, content |-> row.content,
           type |-> row.type, is_pinned |-> row.is_pinned,
           roomStudyType |-> roomStudyType, senderStudyType |-> senderStudyType,
           roomName |-> roomName]
  ELSE NoMessage

\* app.put('/api/messages/:id/pin')
put_message_pin(id, is_pinned, role) ==
  /\ last' = NoSend
  /\ nextReq < MaxReqs
  /\ Cardinality(InFlight) < MaxInFlight
  /\ nextReq' = nextReq + 1
  /\ IF role # Str("representative")
     THEN UNCHANGED pending
     ELSE pending' = pending \cup
            {[kind |-> "pin_get", st |-> "queued", req |-> nextReq', id |-> id,
              is_pinned |-> is_pinned, message |-> NoMessage]}
  /\ out' = <<>>
  /\ UNCHANGED <<socketVars, dedupVars, now, messages, notifications>>

\* sqlite executes the SELECT of a pin request
DbGetMessage(op, ok, roomStudyType, senderStudyType, roomName) ==
  /\ last' = NoSend
  /\ op \in pending /\ op.st = "queued" /\ op.kind = "pin_get"
  /\ pending' = (pending \ {op}) \cup
       {IF ok
        THEN [op EXCEPT !.st = "ok",
                        !.message = SelectMessage(messages, op.id, roomStudyType,
                                                  senderStudyType, roomName)]
        ELSE [op EXCEPT !.st = "err"]}
  /\ out' = <<>>
  /\ UNCHANGED <<socketVars, dedupVars, now, messages, notifications, nextReq>>

\* the callback of db.get: 500, 404, or the UPDATE is queued
pin_get_cb(op) ==
  /\ last' = NoSend
  /\ op \in pending /\ op.kind = "pin_get" /\ op.st \in {"ok", "err"}
  /\ IF op.st = "err" \/ op.message = NoMessage
     THEN pending' = pending \ {op}
     ELSE pending' = (pending \ {op}) \cup {[op EXCEPT !.kind = "pin_update", !.st = "queued"]}
  /\ out' = <<>>
  /\ UNCHANGED <<socketVars, dedupVars, now, messages, notifications, nextReq>>

\* writes the flag even when the statement fails
DbRunPinUpdateWritesAnyway(op, ok) ==
  /\ last' = NoSend
  /\ op \in pending /\ op.st = "queued" /\ op.kind = "pin_update"
  /\ messages' = [i \in 1..Len(messages) |->
                    IF ToText(i) = op.id.s
                    THEN [messages[i] EXCEPT
                            !.is_pinned = IF Truthy(op.is_pinned) THEN 1 ELSE 0]
                    ELSE messages[i]]
  /\ pending' = (pending \ {op}) \cup {[op EXCEPT !.st = IF ok THEN "ok" ELSE "err"]}
  /\ out' = <<>>
  /\ UNCHANGED <<socketVars, dedupVars, now, notifications, nextReq>>

\* sqlite executes UPDATE messages SET is_pinned = ? WHERE id = ?
DbRunPinUpdate(op, ok) ==
  /\ last' = NoSend
  /\ op \in pending /\ op.st = "queued" /\ op.kind = "pin_update"
  /\ IF ok
     THEN /\ messages' = [i \in 1..Len(messages) |->
                            IF ToText(i) = op.id.s
                            THEN [messages[i] EXCEPT
                                    !.is_pinned = IF Truthy(op.is_pinned) THEN 1 ELSE 0]
                            ELSE messages[i]]
          /\ pending' = (pending \ {op}) \cup {[op EXCEPT !.st = "ok"]}
     ELSE /\ pending' = (pending \ {op}) \cup {[op EXCEPT !.st = "err"]}
          /\ UNCHANGED messages
  /\ out' = <<>>
  /\ UNCHANGED <<socketVars, dedupVars, now, notifications, nextReq>>

\* cuts a content of 50 characters too
MessagePreviewFromFifty(content) ==
  IF Len(content.s) >= PreviewLength
  THEN Str(SubSeq(content.s, 1, PreviewLength) \o "...")
  ELSE content

\* message.content.length > 50 ? message.content.substring(0, 50) + '...' : message.content
MessagePreview(content) ==
  IF Len(content.s) > PreviewLength
  THEN Str(SubSeq(content.s, 1, PreviewLength) \o "...")
  ELSE content

\* connectedUsers.forEach of the pin from entry i on: the inserts it queues,
\* one for the first matching connection of each user id.  The scan ends at
\* an entry whose studyType is not a text, where toLowerCase throws: the
\* inserts queued for the entries before it stay queued.
RECURSIVE pinNotifications(_, _, _, _)
pinNotifications(cu, i, notifiedUserIds, ctx) ==
  IF i > Len(cu) THEN {}
  ELSE IF LowerThrows(Or(cu[i].v.studyType, Str("morning"))) THEN {}
  ELSE LET userData == cu[i].v
       IN IF SameStudyType(userData.studyType, ctx.target)
             /\ userData.id \notin notifiedUserIds
          THEN {NotifInsert(cu, ctx, "pinned_message", userData, cu[i].k)}
                 \cup pinNotifications(cu, i + 1, notifiedUserIds \cup {userData.id}, ctx)
          ELSE pinNotifications(cu, i + 1, notifiedUserIds, ctx)

\* the forEach of the pin meets an entry whose studyType is not a text:
\* toLowerCase throws there, and the rest of the callback is not run
pinScanThrows(cu) ==
  \E i \in 1..Len(cu) : LowerThrows(Or(cu[i].v.studyType, Str("morning")))

\* asks the sender's cohort before the room's
TargetStudyTypeSenderFirst(message) ==
  Or(Or(message.senderStudyType, message.roomStudyType), Str("morning"))

\* message.roomStudyType || message.senderStudyType || 'morning'
TargetStudyType(message) ==
  Or(Or(message.roomStudyType, message.senderStudyType), Str("morning"))

\* reading .length of a NULL content throws a TypeError
ContentThrows(message) == message.content.t \in {"null", "undefined"}

\* announces the change as a chat message
PinUpdatedAsMessage(op) ==
  Event(conn, subs, op.message.room, "receive_message",
        [messageId |-> op.id, isPinned |-> op.is_pinned, room |-> op.message.room])

\* io.to(message.room).emit('message_pin_updated', {messageId, isPinned, room})
PinUpdated(op) ==
  Event(conn, subs, op.message.room, "message_pin_updated",
        [messageId |-> op.id, isPinned |-> op.is_pinned, room |-> op.message.room])

\* the callback of the UPDATE: 500 on an error; the cascade of a pin, which
\* the TypeError of a NULL content cuts short before anything is queued or
\* emitted, and the TypeError of the scan after the inserts of the entries
\* before it; then message_pin_updated to the room.
pin_update_cb(op) ==
  /\ last' = NoSend
  /\ op \in pending /\ op.kind = "pin_update" /\ op.st \in {"ok", "err"}
  /\ IF op.st = "err"
     THEN /\ pending' = pending \ {op}
          /\ out' = <<>>
     ELSE IF ~Truthy(op.is_pinned)
     THEN /\ pending' = pending \ {op}
          /\ out' = <<PinUpdated(op)>>
     ELSE IF ContentThrows(op.message)
     THEN /\ pending' = pending \ {op}
          /\ out' = <<>>
     ELSE LET message == op.message
              targetStudyType == TargetStudyType(message)
              roomName == Or(Or(message.roomName, message.room), Str("chat"))
              ctx == [req |-> op.req,
                      title |-> Str("pinned message in " \o roomName.s),
                      body |-> Str("min " \o message.sender_name.s \o ": "
                                     \o MessagePreview(message.content).s),
                      target |-> targetStudyType]
              sysMsg == [kind |-> "sysmsg_insert", st |-> "queued", lastID |-> 0,
                         req |-> op.req, room |-> message.room,
                         sender_id |-> Num(NumText(SystemSenderId)),
                         sender_name |-> Str("system"), content |-> message.content,
                         type |-> Str("system"), file_path |-> Str(ToText(message.id)),
                         tempId |-> Undef]
          IN IF pinScanThrows(connectedUsers)
             THEN /\ pending' = (pending \ {op})
                                  \cup pinNotifications(connectedUsers, 1, {}, ctx)
                  /\ out' = <<>>
             ELSE /\ pending' = (pending \ {op})
                                  \cup pinNotifications(connectedUsers, 1, {}, ctx)
                                  \cup {sysMsg}
                  /\ out' = <<PinUpdated(op)>>
  /\ UNCHANGED <<socketVars, dedupVars, now, messages, notifications, nextReq>>

\* the callback of the system message's insert
system_message_cb(op) ==
  /\ last' = NoSend
  /\ op \in pending /\ op.kind = "sysmsg_insert" /\ op.st \in {"ok", "err"}
  /\ pending' = pending \ {op}
  /\ IF op.st = "err"
     THEN out' = <<>>
     ELSE LET sysMessage ==
                [id |-> op.lastID, room |-> op.room, sender_id |-> op.sender_id,
                 sender_name |-> op.sender_name, content |-> op.content,
                 file_path |-> op.file_path, type |-> op.type]
          IN out' = <<Event(conn, subs, op.room, "receive_message", sysMessage),
                      Event(conn, subs, Everyone, "dashboard_update",
                            [roomId |-> op.room, message |-> sysMessage])>>
  /\ UNCHANGED <<socketVars, dedupVars, now, messages, notifications, nextReq>>

PinUserData ==
  {UserData(Num("7"), Str("student"), Undef),
   UserData(Num("8"), Str("student"), Str("Evening")),
   UserData(Num("8"), Str("representative"), Str("evening"))}

PinMessageData ==
  {[MessageData(Str("1"), Undef) EXCEPT !.content = ct] :
     ct \in {Str("Exam moved to Monday"), Undef}}

\* roomStudyType and senderStudyType of the joined rooms and users rows
JoinedColumns ==
  {<<Null, Null>>, <<Str("evening"), Str("Morning")>>, <<Null, Str("Evening")>>}

\* the chat holds no message yet when one is sent
NextPin ==
  \/ \E c \in Sockets : Connection(c)
  \/ \E c \in Sockets, d \in PinUserData : register_user(c, d) /\ Quiet
  \/ \E c \in Sockets, d \in PinMessageData :
       messages = <<>> /\ pending = {} /\ send_message(c, d)
  \/ \E op \in pending, ok \in BOOLEAN : DbRunMessage(op, ok)
  \/ \E op \in pending : send_message_cb(op)
  \/ \E id \in {Str("1")}, p \in {True, False}, role \in {Str("representative"), Str("student")} :
       put_message_pin(id, p, role)
  \/ \E op \in pending, ok \in BOOLEAN, j \in JoinedColumns :
       DbGetMessage(op, ok, j[1], j[2], Null)
  \/ \E op \in pending : pin_get_cb(op)
  \/ \E op \in pending, ok \in BOOLEAN : DbRunPinUpdate(op, ok)
  \/ \E op \in pending : pin_update_cb(op)
  \/ \E op \in pending, ok \in BOOLEAN : DbRunNotification(op, ok)
  \/ \E op \in pending : notification_cb(op)
  \/ \E op \in pending : system_message_cb(op)

SpecPin == Init /\ [][NextPin]_vars

\* ------------------------------------------- manual and lecture notices

NotifyUserData ==
  {UserData(Num("7"), Str("student"), Undef),
   UserData(Num("7"), Str("student"), Str("Evening")),
   UserData(Num("9"), Str("representative"), Undef)}

NotificationData ==
  {[professor_id |-> Num("9"), professor_name |-> Str("dr"), message |-> Str("quiz tomorrow")]}

Lectures ==
  {[title |-> Str("algebra"), studyType |-> st, created_by |-> Num("9")] :
     st \in {Null, Str("evening")}}

NextNotify ==
  \/ \E c \in Sockets : Connection(c)
  \/ \E c \in Sockets, d \in NotifyUserData : register_user(c, d) /\ Quiet
  \/ \E c \in Sockets, d \in NotificationData :
       send_notification(c, d) /\ Handled("send_notification", c, d)
  \/ \E l \in Lectures, changed \in BOOLEAN :
       put_lecture_cb(l, changed) /\ Handled("put_lecture", "http", [lecture |-> l, changed |-> changed])
  \/ \E op \in pending, ok \in BOOLEAN : DbRunNotification(op, ok)
  \/ \E op \in pending : notification_cb(op)

SpecNotify == Init /\ [][NextNotify]_vars

\* ------------------------------------- the three notification scans together

FanOutUserData ==
  {UserData(Num("7"), Str("student"), Undef),
   UserData(Num("8"), Str("student"), Str("Evening")),
   UserData(Num("9"), Str("representative"), Str("evening"))}

\* the requests up to the inserts their scans queue
NextFanOut ==
  \/ \E c \in Sockets : Connection(c)
  \/ \E c \in Sockets, d \in FanOutUserData : register_user(c, d) /\ Quiet
  \/ \E c \in Sockets, d \in PinMessageData :
       messages = <<>> /\ pending = {} /\ send_message(c, d)
  \/ \E op \in pending, ok \in BOOLEAN : DbRunMessage(op, ok)
  \/ \E op \in pending : send_message_cb(op)
  \/ \E id \in {Str("1")} : put_message_pin(id, True, Str("representative"))
  \/ \E op \in pending, ok \in BOOLEAN, j \in JoinedColumns :
       DbGetMessage(op, ok, j[1], j[2], Null)
  \/ \E op \in pending : pin_get_cb(op)
  \/ \E op \in pending, ok \in BOOLEAN : DbRunPinUpdate(op, ok)
  \/ \E op \in pending : pin_update_cb(op)
  \/ \E c \in Sockets, d \in NotificationData :
       send_notification(c, d) /\ Handled("send_notification", c, d)
  \/ \E l \in Lectures, changed \in BOOLEAN :
       put_lecture_cb(l, changed) /\ Handled("put_lecture", "http", [lecture |-> l, changed |-> changed])

SpecFanOut == Init /\ [][NextFanOut]_vars

\* ------------------------------------------ one room's channel: room 1

ChannelJoinData ==
  {Str("1"),
   Obj(Str("1"), Undef, Num("7"), Undef, Str("student")),
   Obj(Num("1"), Undef, Undef, Str("amal"), Str("student")),
   Obj(Str("1"), Undef, Num("7"), Str("amal"), Undef),
   Obj(Str("1"), Undef, Num("7"), Str("amal"), Str("student"))}

\* a message is sent when the database is idle
NextChannel ==
  \/ \E c \in Sockets : Connection(c)
  \/ \E c \in Sockets : disconnect(c) /\ Quiet
  \/ \E c \in Sockets, d \in ChannelJoinData : join_room(c, d) /\ Handled("join_room", c, d)
  \/ \E c \in Sockets : pending = {} /\ send_message(c, MessageData(Num("1"), Undef))
  \/ \E op \in pending, ok \in BOOLEAN : DbRunMessage(op, ok)
  \/ \E op \in pending : send_message_cb(op)
  \/ \E p \in {True, False} : put_message_pin(Str("1"), p, Str("representative"))
  \/ \E op \in pending, ok \in BOOLEAN : DbGetMessage(op, ok, Null, Null, Null)
  \/ \E op \in pending : pin_get_cb(op)
  \/ \E op \in pending, ok \in BOOLEAN : DbRunPinUpdate(op, ok)
  \/ \E op \in pending : pin_update_cb(op)
  \/ \E op \in pending : system_message_cb(op)

SpecChannel == Init /\ [][NextChannel]_vars

\* ------------------------------- deliveries while connections come and go

DeliveryUserData ==
  {UserData(Num("7"), Str("student"), Undef), UserData(Num("8"), Str("student"), Undef)}

\* a message or a notification is sent when its table is empty and the
\* database idle
NextDelivery ==
  \/ \E c \in Sockets : Connection(c)
  \/ \E c \in Sockets, d \in DeliveryUserData : register_user(c, d) /\ Quiet
  \/ \E c \in Sockets : disconnect(c) /\ Quiet
  \/ \E c \in Sockets : join_room(c, Str("1")) /\ Quiet
  \/ \E c \in Sockets, d \in NotificationData :
       /\ notifications = <<>> /\ pending = {}
       /\ send_notification(c, d) /\ Handled("send_notification", c, d)
  \/ \E op \in pending, ok \in BOOLEAN : DbRunNotification(op, ok)
  \/ \E op \in pending : notification_cb(op)
  \/ \E c \in Sockets :
       messages = <<>> /\ pending = {} /\ send_message(c, MessageData(Str("1"), Undef))
  \/ \E op \in pending, ok \in BOOLEAN : DbRunMessage(op, ok)
  \/ \E op \in pending : send_message_cb(op)

SpecDelivery == Init /\ [][NextDelivery]_vars

\* ---------------------------------- bursts whose inserts succeed or fail

BurstLectures == {[title |-> Str("algebra"), studyType |-> Null, created_by |-> Num("9")]}

\* a registration arrives and a burst starts when the database is idle
NextBurst ==
  \/ \E c \in Sockets : Connection(c)
  \/ \E c \in Sockets, d \in DeliveryUserData :
       pending = {} /\ register_user(c, d) /\ Quiet
  \/ \E c \in Sockets, d \in NotificationData :
       pending = {} /\ send_notification(c, d) /\ Handled("send_notification", c, d)
  \/ \E l \in BurstLectures :
       /\ pending = {}
       /\ put_lecture_cb(l, TRUE)
       /\ Handled("put_lecture", "http", [lecture |-> l, changed |-> TRUE])
  \/ \E c \in Sockets :
       messages = <<>> /\ pending = {} /\ send_message(c, MessageData(Str("1"), Undef))
  \/ \E op \in pending, ok \in BOOLEAN : DbRunMessage(op, ok)
  \/ \E op \in pending : send_message_cb(op)
  \/ pending = {} /\ put_message_pin(Str("1"), True, Str("representative"))
  \/ \E op \in pending, ok \in BOOLEAN : DbGetMessage(op, ok, Null, Null, Null)
  \/ \E op \in pending : pin_get_cb(op)
  \/ \E op \in pending, ok \in BOOLEAN : DbRunPinUpdate(op, ok)
  \/ \E op \in pending : pin_update_cb(op)
  \/ \E op \in pending, ok \in BOOLEAN : DbRunNotification(op, ok)
  \/ \E op \in pending : notification_cb(op)
  \/ \E op \in pending : system_message_cb(op)

SpecBurst == Init /\ [][NextBurst]_vars

\* ------------------- disconnects among the other handlers and callbacks

CleanupJoinData == {Obj(Str("1"), Undef, Num("7"), Str("amal"), Str("student"))}

\* a message or a notification is sent when nothing else is under way
NextCleanup ==
  \/ \E c \in Sockets : Connection(c)
  \/ \E c \in Sockets, d \in DeliveryUserData : register_user(c, d) /\ Quiet
  \/ \E c \in Sockets : disconnect(c) /\ Handled("disconnect", c, Undef)
  \/ \E c \in Sockets, d \in CleanupJoinData : join_room(c, d) /\ Quiet
  \/ \E c \in Sockets : leave_room(c, Str("1")) /\ Quiet
  \/ \E c \in Sockets, d \in NotificationData :
       /\ notifications = <<>> /\ pending = {} /\ timers = <<>>
       /\ send_notification(c, d) /\ Handled("send_notification", c, d)
  \/ \E op \in pending, ok \in BOOLEAN : DbRunNotification(op, ok)
  \/ \E op \in pending : notification_cb(op)
  \/ \E c \in Sockets :
       /\ messages = <<>> /\ pending = {} /\ timers = <<>> /\ now = 0
       /\ send_message(c, MessageData(Str("1"), Str("t1")))
  \/ \E op \in pending, ok \in BOOLEAN : DbRunMessage(op, ok)
  \/ \E op \in pending : send_message_cb(op)
  \/ TimerFires
  \/ timers # <<>> /\ Tick

SpecCleanup == Init /\ [][NextCleanup]_vars

\* ------------------------------------- pins of short and long messages

\* contents of 20, 50, 51 and 64 characters
PreviewContents ==
  {Str("Exam moved to Monday"),
   Str("The exam is moved to Monday at ten, in room twelve"),
   Str("The exam is moved to Monday at nine, in room twelve"),
   Str("The exam is moved to Monday at nine, in room twelve; bring an ID")}

PreviewMessageData ==
  {[MessageData(Str("1"), Undef) EXCEPT !.content = ct] : ct \in PreviewContents}

\* a message is sent when the chat is empty and the database idle; a
\* registration arrives and a pin is asked for when the database is idle
NextPreview ==
  \/ \E c \in Sockets : Connection(c)
  \/ \E c \in Sockets, d \in DeliveryUserData :
       pending = {} /\ register_user(c, d) /\ Quiet
  \/ \E c \in Sockets, d \in PreviewMessageData :
       messages = <<>> /\ pending = {} /\ send_message(c, d)
  \/ \E op \in pending, ok \in BOOLEAN : DbRunMessage(op, ok)
  \/ \E op \in pending : send_message_cb(op)
  \/ pending = {} /\ put_message_pin(Str("1"), True, Str("representative"))
  \/ \E op \in pending, ok \in BOOLEAN : DbGetMessage(op, ok, Null, Null, Null)
  \/ \E op \in pending : pin_get_cb(op)
  \/ \E op \in pending, ok \in BOOLEAN : DbRunPinUpdate(op, ok)
  \/ \E op \in pending : pin_update_cb(op)
  \/ \E op \in pending, ok \in BOOLEAN : DbRunNotification(op, ok)
  \/ \E op \in pending : notification_cb(op)
  \/ \E op \in pending : system_message_cb(op)

SpecPreview == Init /\ [][NextPreview]_vars

\* ---------------------------- GET /api/students/active-count/:studyType

\* connectedUsers.forEach from entry i on: the ids of the students whose
\* studyType === the requested one
RECURSIVE activeIds(_, _, _)
activeIds(cu, i, studyType) ==
  IF i > Len(cu) THEN <<>>
  ELSE LET user == cu[i].v
       IN IF user.role = Str("student")
             /\ (~Truthy(studyType) \/ user.studyType = studyType)
          THEN <<user.id>> \o activeIds(cu, i + 1, studyType)
          ELSE activeIds(cu, i + 1, studyType)

\* the route answers {success: true, count, activeIds} and changes nothing
get_active_count(studyType) ==
  /\ last' = [op |-> "active_count", studyType |-> studyType,
               count |-> Len(activeIds(connectedUsers, 1, studyType)),
               activeIds |-> activeIds(connectedUsers, 1, studyType)]
  /\ out' = <<>>
  /\ UNCHANGED <<socketVars, dedupVars, now, dbVars>>

ActiveCountUserData ==
  {UserData(id, role, st) :
     id \in {Num("7"), Num("8")}, role \in {Str("student"), Str("representative")},
     st \in {Undef, Str("Evening"), Str("evening")}}

ActiveCountParams == {Str("evening"), Str("Evening"), Str("morning"), Str("Morning")}

NextActiveCount ==
  \/ \E c \in Sockets : Connection(c)
  \/ \E c \in Sockets, d \in ActiveCountUserData : register_user(c, d) /\ Quiet
  \/ \E c \in Sockets : disconnect(c) /\ Quiet
  \/ \E st \in ActiveCountParams : get_active_count(st)

SpecActiveCount == Init /\ [][NextActiveCount]_vars

\* --------------------------------------------- events whose handler throws

\* a payload may be absent, and a studyType may be a number
FaultUserData ==
  {Undef, UserData(Num("7"), Str("student"), Undef), UserData(Num("8"), Str("student"), Num("5"))}

FaultJoinData == {Undef, Obj(Str("1"), Undef, Num("7"), Str("amal"), Str("student"))}

FaultLeaveData == {Undef, [t |-> "object", s |-> "[object Object]", roomId |-> Str("1")]}

FaultMessageData == {Undef, MessageData(Str("1"), Str("t1"))}

FaultNotificationData == {Undef} \cup NotificationData

\* events arrive when the database is idle; a message is sent when the chat
\* is empty and a notification when none is stored
NextFaults ==
  \/ \E c \in Sockets : Connection(c)
  \/ \E c \in Sockets, d \in FaultUserData :
       pending = {} /\ register_user(c, d) /\ Handled("register_user", c, d)
  \/ \E c \in Sockets, d \in FaultJoinData :
       pending = {} /\ join_room(c, d) /\ Handled("join_room", c, d)
  \/ \E c \in Sockets, d \in FaultLeaveData :
       pending = {} /\ leave_room_payload(c, d) /\ Handled("leave_room", c, d)
  \/ \E c \in Sockets, d \in FaultMessageData :
       /\ messages = <<>> /\ pending = {} /\ timers = <<>> /\ now = 0
       /\ send_message(c, d)
  \/ \E op \in pending, ok \in BOOLEAN : DbRunMessage(op, ok)
  \/ \E op \in pending : send_message_cb(op)
  \/ TimerFires
  \/ timers # <<>> /\ Tick
  \/ \E c \in Sockets, d \in FaultNotificationData :
       /\ notifications = <<>> /\ pending = {} /\ timers = <<>>
       /\ send_notification(c, d) /\ Handled("send_notification", c, d)
  \/ \E op \in pending, ok \in BOOLEAN : DbRunNotification(op, ok)
  \/ \E op \in pending : notification_cb(op)

SpecFaults == Init /\ [][NextFaults]_vars

\* ------------------------------------------- joining a room more than once

\* user 7 joins room 1 as a student or as a representative, the room named
\* by a text or by a number, and room 2 as a student
RejoinData ==
  {Obj(r, Undef, Num("7"), Str("amal"), ro) :
     r \in {Str("1"), Num("1")}, ro \in {Str("student"), Str("representative")}}
  \cup {Obj(Str("2"), Undef, Num("7"), Str("amal"), Str("student"))}

NextRejoin ==
  \/ \E c \in Sockets : Connection(c)
  \/ \E c \in Sockets, d \in RejoinData : join_room(c, d) /\ Handled("join_room", c, d)
  \/ \E c \in Sockets : leave_room(c, Str("1")) /\ Handled("leave_room", c, Str("1"))
  \/ \E c \in Sockets : disconnect(c) /\ Handled("disconnect", c, Undef)

SpecRejoin == Init /\ [][NextRejoin]_vars

\* ------------------------------------- the order of a pin's emissions

\* registrations whose studyType is absent, a text, or the number 5
PinOrderUserData ==
  {UserData(Num("7"), Str("student"), Undef),
   UserData(Num("8"), Str("student"), Str("Morning")),
   UserData(Num("8"), Str("student"), Num("5"))}

\* a message is sent when the chat is empty and the database idle; a
\* registration arrives and a pin or unpin is asked for when the database is
\* idle
NextPinOrder ==
  \/ \E c \in Sockets : Connection(c)
  \/ \E c \in Sockets, d \in PinOrderUserData :
       pending = {} /\ register_user(c, d) /\ Quiet
  \/ \E c \in Sockets, d \in PinMessageData :
       messages = <<>> /\ pending = {} /\ send_message(c, d)
  \/ \E op \in pending, ok \in BOOLEAN : DbRunMessage(op, ok)
  \/ \E op \in pending : send_message_cb(op)
  \/ \E p \in {True, False} :
       pending = {} /\ put_message_pin(Str("1"), p, Str("representative"))
  \/ \E op \in pending, ok \in BOOLEAN : DbGetMessage(op, ok, Null, Null, Null)
  \/ \E op \in pending : pin_get_cb(op)
  \/ \E op \in pending, ok \in BOOLEAN : DbRunPinUpdate(op, ok)
  \/ \E op \in pending : pin_update_cb(op)
  \/ \E op \in pending, ok \in BOOLEAN : DbRunNotification(op, ok)
  \/ \E op \in pending : notification_cb(op)
  \/ \E op \in pending : system_message_cb(op)

SpecPinOrder == Init /\ [][NextPinOrder]_vars

\* ------------------------------------------------------------ properties

RoomMap(rp, r) == IF MapHas(rp, r) THEN MapGet(rp, r) ELSE <<>>

\* the Participant entries of room r, as (socket, participant) pairs
Members(rp, r) == {<<RoomMap(rp, r)[i].k, RoomMap(rp, r)[i].v>> : i \in 1..Len(RoomMap(rp, r))}

Students(rp, r) == {m \in Members(rp, r) : m[2].role = Str("student")}

CountEvents(o, r) ==
  {i \in 1..Len(o) : o[i].ev = "active_student_count" /\ o[i].to = r}

\* C1: every active_student_count event a step publishes goes to the room it
\* names and carries the number of 'student' Participants that room holds
\* then, and a step that changes a room's participant set (a join with full
\* identity, a leave, a disconnect) publishes exactly one such event to it.
C1_ActiveCountPublished ==
  [][/\ \A i \in 1..Len(out') :
          out'[i].ev = "active_student_count" =>
            /\ out'[i].to = out'[i].data.room
            /\ out'[i].data.count =
                 Cardinality(Students(roomParticipants', out'[i].data.room))
     /\ \A r \in MapKeys(roomParticipants') :
          Members(roomParticipants', r) # Members(roomParticipants, r) =>
            Cardinality(CountEvents(out', r)) = 1]_vars

\* a count of 1 published to a room that holds a student and a representative
C1_Witness ==
  /\ Len(out) = 1
  /\ out[1].ev = "active_student_count"
  /\ out[1].data.count = 1
  /\ Cardinality(Members(roomParticipants, out[1].to)) = 2

\* C2: the disconnect of c leaves c in neither the registry nor any room's
\* participant set, and publishes one recomputed active_student_count to
\* each room that held c.
C2_DisconnectCleansUp ==
  [][\A c \in Sockets :
       conn[c] = "live" /\ conn'[c] = "gone" =>
         /\ ~MapHas(connectedUsers', c)
         /\ \A r \in MapKeys(roomParticipants') : ~MapHas(RoomMap(roomParticipants', r), c)
         /\ \A r \in MapKeys(roomParticipants) :
              MapHas(RoomMap(roomParticipants, r), c) =>
                /\ Cardinality(CountEvents(out', r)) = 1
                /\ \A i \in CountEvents(out', r) :
                     out'[i].data.count = Cardinality(Students(roomParticipants', r))]_vars

\* a socket that was in two rooms has disconnected: two counts published
C2_Witness ==
  /\ \E c \in Sockets : conn[c] = "gone"
  /\ Len(out) = 2
  /\ out[1].ev = "active_student_count" /\ out[2].ev = "active_student_count"
  /\ out[1].to # out[2].to

\* C3 (as claimed): a send carrying a token that was accepted less than 5
\* seconds earlier is rejected.
C3_RejectedWithinWindow ==
  (/\ last.op = "send_message"
   /\ Truthy(last.tempId)
   /\ last.prev >= 0
   /\ last.at - last.prev < DedupWindowMs) => ~last.accepted

\* C4: a send carrying a token whose most recent accepted send is 10 seconds
\* old or older is accepted: it opens a new window for the token and queues
\* its own insert, whether or not the eviction timer has run.
C4_AcceptedAfterRetention ==
  (/\ last.op = "send_message"
   /\ Truthy(last.tempId)
   /\ last.prev >= 0
   /\ last.at - last.prev >= RetentionMs) =>
     /\ last.accepted
     /\ MapHas(recentMessages, last.tempId)
     /\ MapGet(recentMessages, last.tempId) = last.at
     /\ \E op \in pending :
          /\ op.kind = "msg_insert" /\ op.st = "queued"
          /\ op.req = last.req /\ op.tempId = last.tempId
     /\ \A i \in 1..Len(messages) : messages[i].req # last.req

\* such a send accepted while the timer of the earlier send, already due,
\* has not run yet
C4_Witness ==
  /\ last.op = "send_message" /\ Truthy(last.tempId) /\ last.accepted
  /\ last.prev >= 0 /\ last.at - last.prev >= RetentionMs
  /\ Len(timers) = 2 /\ Head(timers).due <= now

IsSent(e) == e.ev = "receive_message" /\ e.data.type # Str("system")

\* C5: a receive_message of a send carries the id of a stored row, and that
\* row is the one inserted for the same request, with its token, sender and
\* content; it goes to the room of the row and is followed by the
\* dashboard_update of the same message.  The callback of a failed insert
\* emits nothing.
C5_BroadcastAfterPersist ==
  [][/\ \A i \in 1..Len(out') :
          IsSent(out'[i]) =>
            /\ out'[i].data.id \in 1..Len(messages')
            /\ LET row == messages'[out'[i].data.id]
               IN /\ row.tempId = out'[i].data.tempId
                  /\ row.room = out'[i].to
                  /\ row.sender_id = out'[i].data.sender_id
                  /\ row.content = out'[i].data.content
                  /\ \E op \in pending : op.kind = "msg_insert" /\ op.st = "ok"
                                          /\ op.req = row.req /\ op \notin pending'
            /\ Len(out') = 2 /\ i = 1
            /\ out'[2].ev = "dashboard_update"
            /\ out'[2].data.message = out'[1].data
     /\ \A op \in pending :
          (op.kind = "msg_insert" /\ op.st = "err" /\ op \notin pending') => out' = <<>>]_vars

\* two sends in flight, both stored: the callback of the first one broadcasts
\* id 1 with its own token
C5_Witness ==
  /\ Len(messages) = 2
  /\ messages[1].tempId = Str("t1") /\ messages[2].tempId = Undef
  /\ Len(out) = 2 /\ IsSent(out[1])
  /\ out[1].data.id = 1 /\ out[1].data.tempId = Str("t1")
  /\ \E op \in pending : op.kind = "msg_insert" /\ op.st = "ok" /\ op.lastID = 2

\* the successful UPDATE of a pin (is_pinned true) whose callback this step runs
PinCallbacks == {op \in pending : /\ op.kind = "pin_update" /\ op.st = "ok"
                                   /\ Truthy(op.is_pinned)}

\* C6 (as claimed): the callback of a pin queues exactly one notification
\* insert for each user id among the registered connections whose cohort
\* matches the target, and none for anyone else.
C6_OneInsertPerUser ==
  [][\A op \in PinCallbacks :
       op \notin pending' =>
         LET new == {n \in pending' \ pending : n.kind = "notif_insert"}
             users == {connectedUsers[i].v.id :
                         i \in {k \in 1..Len(connectedUsers) :
                                  SameStudyType(connectedUsers[k].v.studyType,
                                                TargetStudyType(op.message))}}
         IN /\ \A u \in users : Cardinality({n \in new : n.user_id = u}) = 1
            /\ \A n \in new : n.user_id \in users]_vars

\* C7 (as claimed): when the callback of a pin notification's successful
\* insert runs, new_notification goes to every connection that was
\* registered with that user id in the target cohort at the scan and still is.
C7_EveryDeviceNotified ==
  [][\A op \in pending :
       (/\ op.kind = "notif_insert" /\ op.src = "pinned_message"
        /\ op.st = "ok" /\ op \notin pending') =>
         \A c \in op.devices :
           (MapHas(connectedUsers, c) /\ MapGet(connectedUsers, c).id = op.user_id) =>
             \E k \in 1..Len(out') :
               out'[k].ev = "new_notification" /\ out'[k].to = Str(c)]_vars

\* C8 (as claimed): a manual or lecture-update notification writes one row
\* for each distinct target user: no two rows of one request name one user.
C8_OneRowPerUser ==
  \A i, j \in 1..Len(notifications) :
    (i # j /\ notifications[i].req = notifications[j].req) =>
      notifications[i].user_id # notifications[j].user_id

\* C9 (as claimed): the callback of a pin queues exactly one insert of a
\* system message (sender -1, type 'system', the content of the pinned
\* message, its id as back-reference, its room), and the callback of that
\* insert, once it succeeded, emits receive_message to the room and
\* dashboard_update to everyone.
C9_OneSystemMessage ==
  [][/\ \A op \in PinCallbacks :
          op \notin pending' =>
            LET new == {n \in pending' \ pending : n.kind = "sysmsg_insert"}
            IN /\ Cardinality(new) = 1
               /\ \A n \in new :
                    /\ n.room = op.message.room
                    /\ n.sender_id = Num("-1")
                    /\ n.type = Str("system")
                    /\ n.content = op.message.content
                    /\ n.file_path = Str(ToText(op.message.id))
     /\ \A op \in pending :
          (op.kind = "sysmsg_insert" /\ op.st = "ok" /\ op \notin pending') =>
            /\ Len(out') = 2
            /\ out'[1].ev = "receive_message" /\ out'[1].to = op.room
            /\ out'[1].data.id = op.lastID
            /\ out'[2].ev = "dashboard_update" /\ out'[2].to = Everyone]_vars

\* C10 (as claimed): the callback of every successful flag update, pin or
\* unpin, emits message_pin_updated {messageId, isPinned, room} to the
\* message's room exactly once.
C10_PinUpdateBroadcast ==
  [][\A op \in pending :
       (op.kind = "pin_update" /\ op.st = "ok" /\ op \notin pending') =>
         Cardinality({k \in 1..Len(out') :
                        /\ out'[k].ev = "message_pin_updated"
                        /\ out'[k].to = op.message.room
                        /\ out'[k].data = [messageId |-> op.id, isPinned |-> op.is_pinned,
                                           room |-> op.message.room]}) = 1]_vars

\* C11: an unpin request (is_pinned false) only sets the stored flag of its
\* message to 0 and emits message_pin_updated to the room: none of its steps
\* inserts or deletes a message row or a notification row, queues an insert,
\* or emits receive_message, dashboard_update or new_notification.
C11_UnpinOnlyFlipsFlag ==
  [][\A op \in pending :
       (/\ op.kind \in {"pin_get", "pin_update"} /\ ~Truthy(op.is_pinned)
        /\ op \notin pending') =>
         /\ notifications' = notifications
         /\ Len(messages') = Len(messages)
         /\ \A n \in pending' \ pending : n.kind \in {"pin_get", "pin_update"}
         /\ \A i \in 1..Len(messages) :
              IF /\ op.kind = "pin_update" /\ op.st = "queued" /\ ToText(i) = op.id.s
                 /\ [op EXCEPT !.st = "ok"] \in pending'
              THEN messages'[i] = [messages[i] EXCEPT !.is_pinned = 0]
              ELSE messages'[i] = messages[i]
         /\ IF op.kind = "pin_update" /\ op.st = "ok"
            THEN /\ Len(out') = 1
                 /\ out'[1].ev = "message_pin_updated"
                 /\ out'[1].to = op.message.room
                 /\ out'[1].data = [messageId |-> op.id, isPinned |-> op.is_pinned,
                                    room |-> op.message.room]
            ELSE out' = <<>>]_vars

\* a pinned message was unpinned: the flag is 0 again, the system message of
\* the pin is still there and the room was told
C11_Witness ==
  /\ Len(messages) = 2
  /\ messages[1].is_pinned = 0
  /\ messages[2].type = Str("system")
  /\ Len(out) = 1
  /\ out[1].ev = "message_pin_updated" /\ out[1].data.isPinned = False

\* C12 (as claimed): the stored pin flag is 0 or 1, and the cascade runs
\* only on the change from 0 to 1: the callback of a pin whose message was
\* already pinned when the request read it queues no system message and no
\* notification.
C12_CascadeOncePerPin ==
  [][/\ \A i \in 1..Len(messages') : messages'[i].is_pinned \in {0, 1}
     /\ \A op \in PinCallbacks :
          (op \notin pending' /\ op.message.is_pinned = 1) =>
            \A n \in pending' \ pending : n.kind \notin {"notif_insert", "sysmsg_insert"}]_vars

\* the cohort a label stands for: letter case is ignored and no label means
\* morning
Cohort(v) ==
  IF v \in {Undef, Null, Str("")} \/ v \in {Str("morning"), Str("Morning"), Str("MORNING")}
  THEN "morning"
  ELSE IF v \in {Str("evening"), Str("Evening"), Str("EVENING")} THEN "evening"
  ELSE v.s

\* the connections of the registry in cohort co, but those of user id skip
InCohort(cu, co, skip) ==
  {cu[i].k : i \in {k \in 1..Len(cu) :
                      Cohort(cu[k].v.studyType) = co /\ cu[k].v.id \notin skip}}

\* the notification inserts a step queues
NewInserts == {n \in pending' \ pending : n.kind = "notif_insert"}

\* C13: each of the three scans selects by cohort without regard to letter
\* case and reads a missing cohort as morning.  A manual notification selects
\* the connections in the sender's cohort, a changed lecture those in the
\* lecture's cohort, both but for the excluded user; a pin whose scan runs
\* selects one connection of every user in the target cohort, and only
\* connections of that cohort.
C13_CohortMatching ==
  [][/\ last'.op = "send_notification" =>
          LET c == last'.c
              own == IF MapHas(connectedUsers, c)
                     THEN MapGet(connectedUsers, c).studyType ELSE Undef
          IN {n.socketId : n \in NewInserts}
               = InCohort(connectedUsers, Cohort(own), {last'.data.professor_id})
     /\ (last'.op = "put_lecture" /\ last'.data.changed) =>
          {n.socketId : n \in NewInserts}
            = InCohort(connectedUsers, Cohort(last'.data.lecture.studyType),
                       {last'.data.lecture.created_by})
     /\ \A op \in PinCallbacks :
          (op \notin pending' /\ ~ContentThrows(op.message)) =>
            LET co == Cohort(TargetStudyType(op.message))
                all == InCohort(connectedUsers, co, {})
            IN /\ {n.socketId : n \in NewInserts} \subseteq all
               /\ {n.user_id : n \in NewInserts} = {MapGet(connectedUsers, k).id : k \in all}]_vars

\* a pin aimed at 'Evening' selected a connection registered as 'evening'
C13_Witness ==
  \E n \in pending :
    /\ n.kind = "notif_insert" /\ n.src = "pinned_message"
    /\ n.target = Str("Evening")
    /\ MapHas(connectedUsers, n.socketId)
    /\ MapGet(connectedUsers, n.socketId).studyType = Str("evening")

\* C14: a manual notification queues one insert for each registered
\* connection in the sender's registered cohort (morning if the sender is not
\* registered) whose user id is not the payload's professor_id, and none for
\* any other; the callback of each insert that succeeded emits exactly one
\* new_notification, to that connection alone, a failed insert emits nothing,
\* and no other step emits a manual new_notification.
C14_ManualSelection ==
  [][/\ last'.op = "send_notification" =>
          LET c == last'.c
              own == IF MapHas(connectedUsers, c)
                     THEN MapGet(connectedUsers, c).studyType ELSE Str("morning")
              selected == InCohort(connectedUsers, Cohort(own), {last'.data.professor_id})
          IN /\ \A k \in selected : Cardinality({n \in NewInserts : n.socketId = k}) = 1
             /\ \A n \in NewInserts : n.socketId \in selected /\ n.src = "manual_alert"
     /\ \A op \in pending :
          (/\ op.kind = "notif_insert" /\ op.src = "manual_alert"
           /\ op.st \in {"ok", "err"} /\ op \notin pending') =>
            IF op.st = "ok"
            THEN /\ Len(out') = 1
                 /\ out'[1].ev = "new_notification"
                 /\ out'[1].to = Str(op.socketId)
                 /\ out'[1].rcpt = {op.socketId}
                 /\ out'[1].data.id = op.lastID
            ELSE out' = <<>>
     /\ \A k \in 1..Len(out') :
          (out'[k].ev = "new_notification" /\ out'[k].data.type = "manual_alert") =>
            \E op \in pending \ pending' :
              /\ op.kind = "notif_insert" /\ op.src = "manual_alert" /\ op.st = "ok"
              /\ out'[k].to = Str(op.socketId)]_vars

\* the professor on s1 and a student on s2 share a cohort: the student's
\* connection got the notification, and nothing was queued for the professor
C14_Witness ==
  /\ MapHas(connectedUsers, "s1") /\ MapGet(connectedUsers, "s1").id = Num("9")
  /\ MapHas(connectedUsers, "s2") /\ MapGet(connectedUsers, "s2").id = Num("7")
  /\ MapGet(connectedUsers, "s2").studyType = Str("morning")
  /\ Len(out) = 1
  /\ out[1].ev = "new_notification" /\ out[1].data.type = "manual_alert"
  /\ out[1].rcpt = {"s2"}
  /\ pending = {}
  /\ Len(notifications) = 1

\* the join payloads whose room identifier is missing, empty, 'undefined' or
\* 'null'
RejectedJoins ==
  {Undef, Str(""), Str("undefined"), Str("null"),
   Obj(Undef, Undef, Num("7"), Str("amal"), Str("student")),
   Obj(Null, Str(""), Num("7"), Str("amal"), Str("student"))}

\* C15: a join whose room identifier is missing, empty, 'undefined' or 'null'
\* changes no subscription, no participant set and no registry entry, and
\* emits nothing.
C15_InvalidJoinRejected ==
  [][(last'.op = "join_room" /\ last'.data \in RejectedJoins) =>
       /\ subs' = subs
       /\ roomParticipants' = roomParticipants
       /\ connectedUsers' = connectedUsers
       /\ out' = <<>>]_vars

\* a connection that is a participant of room 2 sent a join for 'null'
C15_Witness ==
  /\ last.op = "join_room" /\ last.data = Str("null")
  /\ Str("2") \in subs[last.c]
  /\ MapHas(roomParticipants, Str("2"))
  /\ MapHas(MapGet(roomParticipants, Str("2")), last.c)
  /\ out = <<>>

\* C16 (as claimed): a number and its string form name one room, so after
\* leave(n) the connection is neither subscribed to the room String(n) nor a
\* participant of it, whether n came as a number or as a string.
C16_LeaveCoercesRoom ==
  [][last'.op = "leave_room" =>
       LET c == last'.c
           room == Str(last'.data.s)
       IN /\ room \notin subs'[c]
          /\ MapHas(roomParticipants', room) =>
               ~MapHas(MapGet(roomParticipants', room), c)]_vars

\* C17 (as claimed): a leave for a room without a participant set, or by a
\* connection without an entry in the room's set, changes neither the
\* participant sets, the registry nor the dedup window and emits nothing.
C17_LeaveAbsentIsNoOp ==
  [][(/\ last'.op = "leave_room"
      /\ \/ ~MapHas(roomParticipants, last'.data)
         \/ ~MapHas(MapGet(roomParticipants, last'.data), last'.c)) =>
       /\ roomParticipants' = roomParticipants
       /\ connectedUsers' = connectedUsers
       /\ recentMessages' = recentMessages
       /\ out' = <<>>]_vars

\* the identity register stores for a payload: a missing or empty cohort
\* becomes morning
Stored(d) ==
  [d EXCEPT !.studyType = IF d.studyType \in {Undef, Null, Str("")}
                          THEN Str("morning") ELSE d.studyType]

\* C19: the registry holds at most one entry for a connection and every
\* stored cohort is non-empty; register(c, d) makes c's entry the identity d
\* with a missing or empty cohort stored as morning, whatever c's entry was,
\* leaves the entries of the other connections alone, and changes nothing
\* when c's entry is that identity already.
C19_RegisterOverwrites ==
  [][/\ \A i, j \in 1..Len(connectedUsers') :
          connectedUsers'[i].k = connectedUsers'[j].k => i = j
     /\ \A i \in 1..Len(connectedUsers') :
          connectedUsers'[i].v.studyType \notin {Undef, Null, Str("")}
     /\ last'.op = "register_user" =>
          LET c == last'.c
              d == last'.data
          IN /\ MapHas(connectedUsers', c)
             /\ MapGet(connectedUsers', c) = Stored(d)
             /\ \A k \in Sockets \ {c} :
                  /\ MapHas(connectedUsers', k) <=> MapHas(connectedUsers, k)
                  /\ MapHas(connectedUsers, k) =>
                       MapGet(connectedUsers', k) = MapGet(connectedUsers, k)
             /\ (MapHas(connectedUsers, c) /\ MapGet(connectedUsers, c) = Stored(d)) =>
                  connectedUsers' = connectedUsers]_vars

\* two connections hold user 7; the last register replaced an evening
\* identity's connection entry by one with an empty cohort, stored as morning
C19_Witness ==
  /\ last.op = "register_user" /\ last.data.studyType = Str("")
  /\ Len(connectedUsers) = 2
  /\ \A i \in 1..2 : connectedUsers[i].v.id = Num("7")
  /\ MapGet(connectedUsers, last.c).studyType = Str("morning")
  /\ \E k \in Sockets \ {last.c} : MapGet(connectedUsers, k).studyType = Str("Evening")

\* C20 (as claimed): when a disconnect has cleaned up, every connection in a
\* room's participant set has an entry in the registry.
C20_ParticipantsRegistered ==
  last.op = "disconnect" =>
    \A i \in 1..Len(roomParticipants) :
      \A c \in MapKeys(roomParticipants[i].v) : MapHas(connectedUsers, c)

\* the joins of room 1 that lack userId, userName or role
PartialJoins ==
  {Str("1"),
   Obj(Str("1"), Undef, Num("7"), Undef, Str("student")),
   Obj(Num("1"), Undef, Undef, Str("amal"), Str("student")),
   Obj(Str("1"), Undef, Num("7"), Str("amal"), Undef)}

RoomEvents == {"receive_message", "active_student_count", "message_pin_updated"}

\* C18: a join of room 1 that lacks userId, userName or role subscribes the
\* connection to the room's channel, adds no participant and publishes no
\* count; and every receive_message, active_student_count and
\* message_pin_updated of room 1 reaches every live connection subscribed to
\* it, participant or not.
C18_JoinWithoutIdentity ==
  [][/\ (last'.op = "join_room" /\ last'.data \in PartialJoins) =>
          /\ Str("1") \in subs'[last'.c]
          /\ roomParticipants' = roomParticipants
          /\ out' = <<>>
     /\ \A k \in 1..Len(out') :
          out'[k].ev \in RoomEvents =>
            \A c \in Sockets :
              (conn'[c] = "live" /\ Str("1") \in subs'[c]) => c \in out'[k].rcpt]_vars

\* a connection that joined room 1 without identity, so is no participant,
\* received a message of the room
C18_Witness ==
  /\ Len(out) = 2
  /\ out[1].ev = "receive_message"
  /\ \E c \in out[1].rcpt :
       /\ Str("1") \in subs[c]
       /\ ~MapHas(RoomMap(roomParticipants, Str("1")), c)
  /\ MapHas(roomParticipants, Str("1"))

\* C21: a send without a token (tempId absent or empty) is accepted, its
\* insert is queued, and it leaves the dedup window and its timers as they
\* were, however many sends came before.
C21_TokenlessBypass ==
  [][(last'.op = "send_message" /\ last'.tempId \in {Undef, Null, Str("")}) =>
       /\ last'.accepted
       /\ \E op \in pending' \ pending : op.kind = "msg_insert" /\ op.req = last'.req
       /\ recentMessages' = recentMessages
       /\ timers' = timers]_vars

\* the third send of a run carries an empty token while the window holds t1
C21_Witness ==
  /\ last.op = "send_message" /\ last.tempId = Str("") /\ last.req = 3
  /\ MapHas(recentMessages, Str("t1"))
  /\ \E op \in pending : op.kind = "msg_insert" /\ op.req = 3

\* C22: the callback of a send whose insert succeeded emits exactly one
\* dashboard_update {roomId, message}, addressed to everyone and received by
\* every live connection, joined to the room or not.
C22_DashboardToAll ==
  [][\A op \in pending :
       (op.kind = "msg_insert" /\ op.st = "ok" /\ op \notin pending') =>
         LET updates == {k \in 1..Len(out') : out'[k].ev = "dashboard_update"}
         IN /\ Cardinality(updates) = 1
            /\ \A k \in updates :
                 /\ out'[k].to = Everyone
                 /\ out'[k].rcpt = {c \in Sockets : conn'[c] = "live"}
                 /\ out'[k].data.roomId = op.room
                 /\ out'[k].data.message.id = op.lastID
                 /\ out'[k].data.message.content = op.content]_vars

\* both connections got the dashboard_update of a message of room 1; one of
\* them is in no room but its own
C22_Witness ==
  /\ Len(out) = 2
  /\ out[1].ev = "receive_message" /\ out[1].data.type = Str("text")
  /\ out[2].ev = "dashboard_update"
  /\ out[2].rcpt = Sockets
  /\ \E c \in Sockets : subs[c] = {Str(c)}
  /\ \E c \in Sockets : Str("1") \in subs[c]

\* C23: a connection that was selected for a notification, or that had joined
\* a room, and that disconnects before the event is emitted simply does not
\* get it: the callback completes, emits the event to whoever of its
\* addressees is still connected, and leaves every other queued delivery
\* and the connections as they were.
C23_GoneTargetDropped ==
  [][/\ \A op \in pending :
          (op.kind = "notif_insert" /\ op.st = "ok" /\ op \notin pending') =>
            /\ Len(out') = 1
            /\ out'[1].ev = "new_notification"
            /\ out'[1].data.id = op.lastID
            /\ out'[1].rcpt = {c \in Sockets : c = op.socketId /\ conn[c] = "live"}
            /\ pending' = pending \ {op}
            /\ conn' = conn
     /\ \A op \in pending :
          (op.kind = "msg_insert" /\ op.st = "ok" /\ op \notin pending') =>
            /\ Len(out') = 2
            /\ out'[1].ev = "receive_message"
            /\ out'[1].rcpt = {c \in Sockets : conn[c] = "live" /\ op.room \in subs[c]}
            /\ pending' = pending \ {op}
            /\ conn' = conn]_vars

\* the notification of s1, gone since it was selected, has just been dropped
\* while the one of s2, still connected, is waiting for its callback
C23_Witness ==
  /\ Len(out) = 1
  /\ out[1].ev = "new_notification"
  /\ out[1].to = Str("s1")
  /\ out[1].rcpt = {}
  /\ conn["s1"] = "gone"
  /\ conn["s2"] = "live"
  /\ \E op \in pending :
       op.kind = "notif_insert" /\ op.socketId = "s2"

\* C24: when the insert of one target's notification fails, in a manual, a
\* lecture or a pin burst, nothing is stored and nothing emitted for that
\* target, and the queued inserts of all other targets stay as they were:
\* each of them still stores its row and emits its new_notification to its
\* own connection.
C24_FailedInsertSkipsOneTarget ==
  [][\A op \in pending : op.kind = "notif_insert" =>
       /\ (op.st = "queued" /\ [op EXCEPT !.st = "err"] \in pending') =>
            /\ notifications' = notifications
            /\ out' = <<>>
            /\ pending' \ {[op EXCEPT !.st = "err"]} = pending \ {op}
       /\ (op.st = "err" /\ op \notin pending') =>
            /\ notifications' = notifications
            /\ out' = <<>>
            /\ pending' = pending \ {op}
       /\ (op.st = "queued" /\ op \notin pending'
              /\ [op EXCEPT !.st = "err"] \notin pending') =>
            /\ Len(notifications') = Len(notifications) + 1
            /\ notifications'[Len(notifications')].user_id = op.user_id
            /\ notifications'[Len(notifications')].req = op.req
            /\ \E q \in pending' \ pending :
                 q.st = "ok" /\ q.socketId = op.socketId /\ q.req = op.req
       /\ (op.st = "ok" /\ op \notin pending') =>
            /\ Len(out') = 1
            /\ out'[1].ev = "new_notification"
            /\ out'[1].data.id = op.lastID
            /\ out'[1].data.type = op.src
            /\ out'[1].rcpt = {op.socketId}
            /\ pending' = pending \ {op}]_vars

\* in a pin burst the insert for s1 failed and its callback has not run yet,
\* while the notification of s2 was stored and has just been delivered
C24_Witness ==
  /\ Len(out) = 1
  /\ out[1].ev = "new_notification"
  /\ out[1].data.type = "pinned_message"
  /\ out[1].rcpt = {"s2"}
  /\ \E op \in pending :
       /\ op.kind = "notif_insert" /\ op.st = "err" /\ op.socketId = "s1"
       /\ Len(notifications) = 1 /\ notifications[1].req = op.req

\* C25: in every state that a handler, a timer or a database callback can
\* find, a connection that has disconnected is in neither the registry nor
\* the participant set of any room: the disconnect handler removes it from
\* all of them in one step.
C25_CleanupAtomic ==
  \A c \in Sockets :
    conn[c] = "gone" =>
      /\ ~MapHas(connectedUsers, c)
      /\ \A i \in 1..Len(roomParticipants) : ~MapHas(roomParticipants[i].v, c)

\* s1 was selected by a notification scan and has disconnected since; its
\* insert is still to run, s2 is registered and in room 1
C25_Witness ==
  /\ conn["s1"] = "gone"
  /\ \E op \in pending : op.kind = "notif_insert" /\ op.socketId = "s1"
  /\ MapHas(connectedUsers, "s2")
  /\ MapHas(RoomMap(roomParticipants, Str("1")), "s2")
  /\ MapHas(roomParticipants, Str("1"))

\* C26 (as claimed): an entry leaves the window no earlier than 10 seconds
\* after the timestamp recorded in it, also when its token was accepted more
\* than once.
C26_FullRetention ==
  [][\A i \in 1..Len(recentMessages) :
       ~MapHas(recentMessages', recentMessages[i].k) =>
         now - recentMessages[i].v >= RetentionMs]_vars

\* C27: every entry of the window is removed by a timer, without any further
\* send or lookup of its token: once the sends are over the window becomes
\* empty and stays empty.
C27_WindowDrains == <>[](recentMessages = <<>>)

\* t1 was accepted twice and t2 once, and the timers have emptied the window
C27_Witness ==
  /\ recentMessages = <<>>
  /\ timers = <<>>
  /\ nextReq = 3
  /\ MapHas(acceptedAt, Str("t1")) /\ MapGet(acceptedAt, Str("t1")) >= DedupWindowMs
  /\ MapHas(acceptedAt, Str("t2"))

\* C28 (as claimed): a send whose room is missing, or is the text 'undefined'
\* or 'null', is dropped: it queues no insert, so nothing is stored and no
\* receive_message or dashboard_update follows, and it leaves the window and
\* its timers as they were.
C28_MalformedSendDropped ==
  [][/\ (last'.op = "send_message" /\ InvalidRoomId(last'.room)) =>
          /\ pending' = pending
          /\ recentMessages' = recentMessages
          /\ timers' = timers
          /\ out' = <<>>
     /\ \A op \in pending :
          (op.kind = "msg_insert" /\ InvalidRoomId(op.room)) =>
            /\ messages' = messages
            /\ out' = <<>>]_vars

\* the cohort a pin is aimed at, case by case
ResolvedCohort(message) ==
  IF message.roomStudyType \notin {Null, Undef, Str("")} THEN message.roomStudyType
  ELSE IF message.senderStudyType \notin {Null, Undef, Str("")} THEN message.senderStudyType
  ELSE Str("morning")

PreviewOf(body, senderName) ==
  SubSeq(body.s, Len("min " \o senderName.s \o ": ") + 1, Len(body.s))

\* C30: the body of a pin notification, as queued, stored and delivered, is
\* the word 'min' (from), the sender's name, a colon and the preview; the
\* preview is the content itself when it has at most 50 characters, and
\* otherwise its first 50 characters followed by three dots.
C30_PreviewBody ==
  [][/\ \A op \in PinCallbacks :
          op \notin pending' =>
            \A n \in NewInserts :
              LET content == op.message.content.s
                  name == op.message.sender_name
                  preview == PreviewOf(n.body, name)
              IN /\ SubSeq(n.body.s, 1, Len(n.body.s) - Len(preview))
                      = "min " \o name.s \o ": "
                 /\ Len(content) <= PreviewLength => preview = content
                 /\ Len(content) > PreviewLength =>
                      /\ Len(preview) = PreviewLength + 3
                      /\ \A k \in 1..PreviewLength :
                           SubSeq(preview, k, k) = SubSeq(content, k, k)
                      /\ SubSeq(preview, PreviewLength + 1, PreviewLength + 3) = "..."
     /\ \A op \in pending :
          (op.kind = "notif_insert" /\ op.src = "pinned_message" /\ op \notin pending') =>
            /\ \A k \in 1..Len(out') : out'[k].data.body = op.body
            /\ Len(notifications') > Len(notifications) =>
                 notifications'[Len(notifications')].message = op.body]_vars

\* the notification of a message of 64 characters has been delivered with a
\* preview of 53
C30_Witness ==
  /\ Len(out) = 1
  /\ out[1].ev = "new_notification"
  /\ out[1].rcpt # {}
  /\ Len(messages) = 1
  /\ Len(messages[1].content.s) = 64
  /\ Len(PreviewOf(out[1].data.body, messages[1].sender_name)) = PreviewLength + 3

\* C31 (as claimed): the active-count route answers the number of registered
\* connections with role 'student' whose cohort is the requested one, both
\* read without regard to letter case and with 'morning' for a missing one.
C31_ActiveCountByCohort ==
  last.op = "active_count" =>
    last.count = Cardinality({i \in 1..Len(connectedUsers) :
                                /\ connectedUsers[i].v.role = Str("student")
                                /\ Cohort(connectedUsers[i].v.studyType)
                                     = Cohort(last.studyType)})

\* the step is an event whose handler throws: its payload is absent, or it
\* is a manual notification while a registered studyType is not a text
HandlerThrows ==
  \/ last'.op = "thrown"
  \/ /\ last'.op \in {"register_user", "join_room", "leave_room", "send_notification"}
     /\ Absent(last'.data)
  \/ /\ last'.op = "send_notification"
     /\ \E i \in 1..Len(connectedUsers) : connectedUsers[i].v.studyType.t # "string"

\* C32 (as claimed): an event whose handler throws changes neither the
\* registry, nor the rooms and their participants, nor the dedup window and
\* its timers, and nothing is emitted for it: it emits nothing itself and
\* queues no insert whose callback would emit.
C32_ThrowLeavesNoTrace ==
  [][HandlerThrows =>
       /\ connectedUsers' = connectedUsers
       /\ roomParticipants' = roomParticipants
       /\ subs' = subs
       /\ recentMessages' = recentMessages
       /\ timers' = timers
       /\ out' = <<>>
       /\ pending' = pending]_vars

\* the registry entry of connection d, or none
RegistryEntry(cu, d) == IF MapHas(cu, d) THEN <<MapGet(cu, d)>> ELSE <<>>

\* the Participant entry of connection d in room r, or none
ParticipantEntry(rp, r, d) ==
  IF MapHas(RoomMap(rp, r), d) THEN <<MapGet(RoomMap(rp, r), d)>> ELSE <<>>

C34_RejectedAfterFailedInsert ==
  (/\ last.op = "send_message"
   /\ Truthy(last.tempId)
   /\ last.prev >= 0
   /\ last.at - last.prev < DedupWindowMs
   /\ \A i \in 1..Len(messages) : messages[i].tempId # last.tempId
   /\ \A op \in pending : op.req # last.req => op.st = "err") => ~last.accepted

\* C35: a send rejected as a duplicate leaves the window, its timers and the
\* database queue as they were, so the suppression runs from the last
\* accepted send: a send 5 seconds or more after it is accepted however many
\* retries were rejected in between.
C35_RejectedLeavesWindow ==
  [][last'.op = "send_message" =>
       /\ ~last'.accepted =>
            /\ recentMessages' = recentMessages
            /\ timers' = timers
            /\ acceptedAt' = acceptedAt
            /\ pending' = pending
       /\ (Truthy(last'.tempId) /\ last'.prev >= 0
              /\ last'.at - last'.prev >= DedupWindowMs) => last'.accepted]_vars

\* the second retry of a token accepted 4 seconds ago is rejected, and the
\* entry still carries the time of the accepted send
C35_Witness ==
  /\ last.op = "send_message" /\ ~last.accepted
  /\ last.req = 3
  /\ last.at - last.prev = 4000
  /\ MapGet(recentMessages, last.tempId) = last.prev
  /\ Len(timers) = 1

\* the sends of the token of the last send that were queued or stored for
\* another sender and another room
OtherSenders ==
  {op.req : op \in {o \in pending : /\ o.kind = "msg_insert" /\ o.tempId = last.tempId
                                    /\ o.sender_id # last.sender_id
                                    /\ o.room # String(last.room)}}
  \cup {messages[i].req : i \in {k \in 1..Len(messages) :
                                    /\ messages[k].tempId = last.tempId
                                    /\ messages[k].sender_id # last.sender_id
                                    /\ messages[k].room # String(last.room)}}

\* C36 (as claimed): the window is keyed by the token alone: a send carrying
\* a token that was accepted less than 5 seconds earlier is rejected also
\* when the token was last accepted from another connection, sender and room.
C36_TokenAloneIsKey ==
  (/\ last.op = "send_message"
   /\ Truthy(last.tempId)
   /\ last.prev >= 0
   /\ last.at - last.prev < DedupWindowMs
   /\ OtherSenders \ {last.req} # {}) => ~last.accepted

\* C37: no room lists a connection twice.  A join with full identity by a
\* connection that is already a Participant of the room replaces its entry,
\* role included: the room has as many Participants as before, and the count
\* published is the number of connections that are students after the join.
C37_OneEntryPerConnection ==
  [][/\ \A r \in MapKeys(roomParticipants') :
          \A i, j \in 1..Len(RoomMap(roomParticipants', r)) :
            i # j => RoomMap(roomParticipants', r)[i].k # RoomMap(roomParticipants', r)[j].k
     /\ (/\ last'.op = "join_room"
         /\ MapHas(RoomMap(roomParticipants, String(last'.data.roomId)), last'.c)) =>
          LET before == RoomMap(roomParticipants, String(last'.data.roomId))
              after == RoomMap(roomParticipants', String(last'.data.roomId))
          IN /\ Len(after) = Len(before)
             /\ MapGet(after, last'.c).role = last'.data.role
             /\ \A d \in Sockets \ {last'.c} :
                  MapHas(after, d) = MapHas(before, d)
             /\ Len(out') = 1
             /\ out'[1].data.count
                  = Cardinality({d \in Sockets : /\ MapHas(after, d)
                                                 /\ MapGet(after, d).role = Str("student")})]_vars

\* s1 joined before s2 and has just joined again, now as a representative:
\* it kept its place in the room and one student is counted
C37_Witness ==
  /\ last.op = "join_room" /\ last.c = "s1"
  /\ last.data.role = Str("representative")
  /\ Len(RoomMap(roomParticipants, Str("1"))) = 2
  /\ RoomMap(roomParticipants, Str("1"))[1].k = "s1"
  /\ RoomMap(roomParticipants, Str("1"))[1].v.role = Str("representative")
  /\ RoomMap(roomParticipants, Str("1"))[2].v.role = Str("student")
  /\ Len(out) = 1 /\ out[1].data.count = 1

\* the inserts of a pin among ops that wait to be run: one for each
\* notification and one for the system message
PinInserts(ops) ==
  {op \in ops : /\ op.st = "queued"
                /\ \/ op.kind = "sysmsg_insert"
                   \/ op.kind = "notif_insert" /\ op.src = "pinned_message"}

\* a new_notification of a pin, or the receive_message of a system message
PinCascadeEvent(e) ==
  \/ e.ev = "new_notification" /\ e.data.type = "pinned_message"
  \/ e.ev = "receive_message" /\ e.data.type = Str("system")

\* C38: within one pin request, message_pin_updated goes out before the
\* receive_message of the system message and before every new_notification
\* of the pin.  Those two are emitted only by the callback of an insert that
\* was queued in an earlier step and has completed, so the order holds when
\* every step that queues an insert of a pin emits message_pin_updated in
\* that same step.
C38_PinUpdatedFirst ==
  [][((\E i \in 1..Len(out') : PinCascadeEvent(out'[i]))
        => \E op \in pending : op.st = "ok" /\ op \notin pending')
     /\ (PinInserts(pending') \ PinInserts(pending) # {}
           => \E i \in 1..Len(out') : out'[i].ev = "message_pin_updated")]_vars

\* the step ends a pin request without carrying it out: the 403 of the role
\* guard, the 500 or 404 after the SELECT, the 500 after the UPDATE
PinRefused ==
  \/ nextReq' = nextReq + 1 /\ pending' = pending
  \/ \E op \in pending :
       /\ op \notin pending'
       /\ \/ op.kind = "pin_get" /\ (op.st = "err" \/ (op.st = "ok" /\ op.message = NoMessage))
          \/ op.kind = "pin_update" /\ op.st = "err"

\* the UPDATE of a pin request fails in this step
PinUpdateFails ==
  \E op \in pending :
    /\ op.kind = "pin_update" /\ op.st = "queued"
    /\ [op EXCEPT !.st = "err"] \in pending'

\* C39: a pin or unpin request that is refused (the role is not
\* 'representative', the message does not exist, or the flag update fails)
\* has no effect: the step that refuses it leaves every row of messages and
\* notifications as it was, queues no statement and emits nothing, and the
\* UPDATE that fails leaves the pin flag as it was.
C39_RefusedPinHasNoEffect ==
  [][/\ PinRefused => /\ messages' = messages
                      /\ notifications' = notifications
                      /\ pending' \subseteq pending
                      /\ out' = <<>>
     /\ PinUpdateFails => /\ messages' = messages
                          /\ notifications' = notifications
                          /\ out' = <<>>]_vars

\* an unpin whose UPDATE failed: the message pinned before is still pinned
C39_Witness ==
  /\ Len(messages) = 1 /\ messages[1].is_pinned = 1
  /\ \E op \in pending :
       op.kind = "pin_update" /\ op.st = "err" /\ ~Truthy(op.is_pinned)
  /\ out = <<>>

====
